---- MODULE Spec2Model ----
(***************************************************************************)
(* A model of the pytango Chatango client: the protocol layer of base.py   *)
(* (framing, dispatch, keepalive, connect/disconnect), the room handlers   *)
(* of group.py, the PM handshake of private.py, the loop exception hook of *)
(* manager.py, and the older single-file implementation ch.py where its    *)
(* lifecycle differs.  The asyncio event loop is modelled as a FIFO queue  *)
(* of scheduled callbacks (readyQ) and one timer per sleeping keepalive.   *)
(***************************************************************************)
EXTENDS Integers, Sequences, FiniteSets, TLC

VARIABLES
    impl,          \* "pkg": base.py/group.py/private.py;  "ch": ch.py
    kind,          \* "group" (GroupProtocol) or "pm" (PMProtocol)
    username,      \* manager.username is non-empty
    password,      \* manager.password is non-empty
    transport,     \* self._transport: "none" (None), "open", "closed" (closing or closed)
    connected,     \* self.connected
    ping_task,     \* self._ping_task: 0 (None) or the index of a task in pings
    pings,         \* every keepalive task ever created: [st, wake]
    clock,         \* loop.time(), in seconds
    last_command,  \* self._last_command
    readyQ,        \* the loop's ready callbacks, in FIFO order
    events,        \* manager events raised through _call_event, in order
    written,       \* frames handed to transport.write, in order
    aid,           \* storage._aid: None or the digits of the anonymous id
    owner,         \* storage._owner: None or the name the ok command gave
    messages,      \* GroupProtocol._messages: pnum -> Post
    updates,       \* GroupProtocol._updates: pnum -> unid
    lists,         \* the list objects alive: lists[1] is GroupProtocol._history,
                   \* the others are the copies handed to on_history_done
    last_message,  \* GroupProtocol._last_message
    history_count, \* GroupProtocol._history_count
    no_more,       \* GroupProtocol._no_more
    ready,         \* storage._ready (asyncio.Event) is set
    rbuff,         \* self._rbuff, a sequence of bytes
    failed,        \* data_received raised: the transport was torn down
    inbound,       \* history (SpecFrame): every byte received so far
    dispatched,    \* history (SpecRoom, SpecFrame): every handler task data_received
                   \* created, as <<mnemonic, args>>
    chunks,        \* history: number of data_received calls
    explicit,      \* history: a disconnect() with raise_error=False has run
    lost,          \* history: how connection_lost found the session
    handled,       \* history (SpecRoom, SpecFrame): commands whose handler has run
    disconnects,   \* history: disconnect() calls the application has made
    calls,         \* history: the Group methods the application has called
    members,       \* the User objects created so far: [name, clients, flags]
    users,         \* storage._users: a set of User objects (0 is None)
    mods,          \* storage._mods: a set of User objects
    bans,          \* storage._bans: a list of Ban records
    banned,        \* storage._banned_parts and storage._banned_words
    login,         \* manager.username, a string (username says it is non-empty)
    n_color,       \* storage._n_color: None or the characters of the name color
    uid,           \* self._uid: the session id, a field
    flagsobj,      \* a Flags object the application holds (group.settings,
                   \* user.mod_flags): None or [cls, value]
    f_size,        \* storage._f_size
    f_color,       \* storage._f_color: the characters of the font color
    protocols,     \* the room sessions the manager connected: [name, transport, explicit]
    _groups,       \* manager._groups: a list of room sessions (indices of protocols)
    privates       \* manager.privates: 0 (None) or 1 (the private-message session)

vars == <<impl, kind, username, password, transport, connected, ping_task, pings,
          clock, last_command, readyQ, events, written, aid, owner, messages,
          updates, lists, last_message, history_count, no_more, ready, rbuff, failed,
          inbound,
          dispatched, chunks, explicit, lost, handled, disconnects, calls,
          members, users, mods, bans, banned, login, n_color, uid, flagsobj,
          f_size, f_color, protocols, _groups, privates>>

configVars == <<impl, kind, username, password, login>>
roomVars   == <<messages, updates, lists, last_message, history_count, no_more, ready>>
frameVars  == <<rbuff, failed, inbound, dispatched>>
storeVars  == <<aid, owner, n_color, uid>>
groupVars  == <<members, users, mods, bans, banned>>
formatVars == <<f_size, f_color>>
managerVars == <<protocols, _groups, privates>>

(***************************************************************************)
(* Program constants and bounds.                                           *)
(***************************************************************************)
_PING_DELAY   == 15
_LONGEST_PING == 60

MaxTime        == 75   \* seconds of loop time explored
MaxChunks      == 1    \* data_received calls per session
MaxDisconnects == 2    \* disconnect() calls made by the application
MaxRoomCmds    == 3    \* room commands received in one session

TickSteps == {15}

\* Complete commands in one chunk
ChunkSizes == {1, 2}

(***************************************************************************)
(* The loop's scheduled work.  A record of readyQ is one callback or one   *)
(* task step: a handler task made by data_received, a disconnect()         *)
(* coroutine wrapped in a task, transport's connection_lost callback, or   *)
(* the first step of a keepalive task.                                     *)
(***************************************************************************)
RecvTask(cmd, args)  == [type |-> "recv", cmd |-> cmd, arg |-> args, id |-> 0]
DisconnectTask(rerr) == [type |-> "disconnect", cmd |-> <<>>, arg |-> rerr, id |-> 0]
LostTask(exc)        == [type |-> "lost", cmd |-> <<>>, arg |-> exc, id |-> 0]
PingTask(id)         == [type |-> "ping", cmd |-> <<>>, arg |-> "", id |-> id]

\* Task.cancel(): a task that has not finished ends without running further.
cancel(ps, id) ==
    IF id # 0 /\ ps[id].st \in {"ready", "sleeping"}
    THEN [ps EXCEPT ![id].st = "cancelled"]
    ELSE ps

\* The first step of a cancelled task runs nothing: drop it from the queue.
Unschedule(q, id) ==
    SelectSeq(q, LAMBDA t : ~(t.type = "ping" /\ t.id = id))

\* transport.close(): the first close schedules connection_lost(None).
TransportClose(q) ==
    IF transport = "open" THEN Append(q, LostTask("none")) ELSE q

\* A send_command that ends every frame with CRLF
send_command_crlf(tr, w, cmd, firstcmd) ==
    IF tr = "none"
    THEN w
    ELSE Append(w, [cmd |-> cmd, args |-> <<>>, crlf |-> TRUE,
                    open |-> (tr = "open")])


(***************************************************************************)
(* base.py                                                                 *)
(***************************************************************************)
\* send_command: nothing without a transport; the handshake has no CRLF.
send_command(tr, w, cmd, firstcmd) ==
    IF tr = "none"
    THEN w
    ELSE Append(w, [cmd |-> cmd, args |-> <<>>, crlf |-> ~firstcmd,
                    open |-> (tr = "open")])

\* _call_event: schedule the manager's handler for the event.
_call_event(ev, name, arg) == Append(ev, [name |-> name, arg |-> arg])

\* ChatangoProtocol.connection_made
connection_made ==
    /\ connected' = TRUE
    /\ transport' = "open"
    /\ last_command' = clock
    /\ pings' = Append(pings, [st |-> "ready", wake |-> 0])
    /\ ping_task' = Len(pings) + 1
    /\ readyQ' = Append(readyQ, PingTask(Len(pings) + 1))

\* connection_lost that raises the event without the transport's error
connection_lost_drops_error(exc, q) ==
    /\ pings' = cancel(pings, ping_task)
    /\ readyQ' = Unschedule(q, ping_task)
    /\ events' = IF connected
                 THEN _call_event(events, "on_connection_error", "none")
                 ELSE events
    /\ lost' = IF explicit THEN "after_disconnect" ELSE exc

\* ChatangoProtocol.connection_lost, run from queue q
connection_lost(exc, q) ==
    /\ pings' = cancel(pings, ping_task)
    /\ readyQ' = Unschedule(q, ping_task)
    /\ events' = IF connected
                 THEN _call_event(events, "on_connection_error", exc)
                 ELSE events
    /\ lost' = IF explicit THEN "after_disconnect" ELSE exc

\* The event disconnect() raises
disconnect_event(ev) == _call_event(ev, "on_disconnect", "")

\* ChatangoProtocol.disconnect, run from queue q with the events so far ev
disconnect(raise_error, q, ev) ==
    /\ transport' = IF transport = "open" THEN "closed" ELSE transport
    /\ readyQ' = Unschedule(TransportClose(q), ping_task)
    /\ pings' = cancel(pings, ping_task)
    /\ ping_task' = 0
    /\ connected' = raise_error
    /\ events' = disconnect_event(ev)
    /\ explicit' = (explicit \/ ~raise_error)

\* A loop condition that lets exactly 60 idle seconds pass
PingAliveLate == clock - last_command <= _LONGEST_PING

\* The loop condition of ping()
PingAlive == clock - last_command < _LONGEST_PING

\* ChatangoProtocol.ping, first step: test the condition, then sleep
ping_start(id, q) ==
    IF PingAlive
    THEN /\ pings' = [pings EXCEPT ![id] = [st |-> "sleeping", wake |-> clock + _PING_DELAY]]
         /\ readyQ' = q
         /\ UNCHANGED <<transport, written>>
    ELSE /\ pings' = [pings EXCEPT ![id].st = "done"]
         /\ transport' = IF transport = "open" THEN "closed" ELSE transport
         /\ readyQ' = TransportClose(q)
         /\ UNCHANGED written

\* ChatangoProtocol.ping, after a sleep: send the keepalive, test, sleep or close
ping_wake(id) ==
    /\ written' = send_command(transport, written, "", FALSE)
    /\ IF PingAlive
       THEN /\ pings' = [pings EXCEPT ![id].wake = clock + _PING_DELAY]
            /\ UNCHANGED <<transport, readyQ>>
       ELSE /\ pings' = [pings EXCEPT ![id].st = "done"]
            /\ transport' = IF transport = "open" THEN "closed" ELSE transport
            /\ readyQ' = TransportClose(readyQ)

(***************************************************************************)
(* Bytes and strings.  A byte string is a sequence of atoms; an atom is    *)
(* one byte ("NUL", ":", "CR", "LF", the two bytes "xC3" "xA9" of the      *)
(* UTF-8 encoding of one character, the byte "xFF" that no UTF-8 text      *)
(* holds) or a run of ASCII letters or digits written as one word.         *)
(***************************************************************************)
NUL == "NUL"

Min(S) == CHOOSE x \in S : \A y \in S : x <= y

\* bytes.split / str.split on a one-byte separator
RECURSIVE SplitOn(_, _)
SplitOn(s, sep) ==
    LET idx == {i \in DOMAIN s : s[i] = sep}
    IN  IF idx = {}
        THEN <<s>>
        ELSE <<SubSeq(s, 1, Min(idx) - 1)>>
                 \o SplitOn(SubSeq(s, Min(idx) + 1, Len(s)), sep)

\* sep.join(fields)
RECURSIVE Join(_, _)
Join(fields, sep) ==
    IF fields = <<>> THEN <<>>
    ELSE IF Len(fields) = 1 THEN fields[1]
    ELSE fields[1] \o <<sep>> \o Join(Tail(fields), sep)

\* bytes.decode('utf-8') succeeds
RECURSIVE Decodable(_)
Decodable(b) ==
    IF b = <<>> THEN TRUE
    ELSE IF b[1] = "xC3"
         THEN Len(b) >= 2 /\ b[2] = "xA9" /\ Decodable(SubSeq(b, 3, Len(b)))
    ELSE IF b[1] \in {"xA9", "xFF"} THEN FALSE
    ELSE Decodable(Tail(b))

\* bytes.decode('utf-8') of a decodable byte string
RECURSIVE Decoded(_)
Decoded(b) ==
    IF b = <<>> THEN <<>>
    ELSE IF b[1] = "xC3" THEN <<"e'">> \o Decoded(SubSeq(b, 3, Len(b)))
    ELSE <<b[1]>> \o Decoded(Tail(b))

\* str.rstrip("\r\n")
RECURSIVE rstrip(_)
rstrip(s) ==
    IF s # <<>> /\ s[Len(s)] \in {"CR", "LF"}
    THEN rstrip(SubSeq(s, 1, Len(s) - 1))
    ELSE s

\* command.decode('utf-8').rstrip("\r\n").split(':')
ParseCommand(command) == SplitOn(rstrip(Decoded(command)), ":")

\* getattr(self, "_recv_" + mnemonic) finds a handler, for the mnemonics the
\* modelled server sends
HandlerNames ==
    IF kind = "pm"
    THEN {<<"OK">>}
    ELSE {<<"ok">>, <<"denied">>, <<"inited">>, <<"b">>, <<"u">>, <<"i">>,
          <<"gotmore">>, <<"nomore">>, <<"gparticipants">>, <<"participant">>,
          <<"mods">>, <<"blocklist">>, <<"blocked">>}

\* A lookup that finds a handler under every name
HasHandlerAny(mnemonic) == TRUE

HasHandler(mnemonic) == mnemonic \in HandlerNames

\* The handler tasks data_received creates for parsed commands, in order
RECURSIVE HandlerTasks(_)
HandlerTasks(parsed) ==
    IF parsed = <<>> THEN <<>>
    ELSE (IF HasHandler(parsed[1][1])
          THEN <<RecvTask(parsed[1][1], Tail(parsed[1]))>>
          ELSE <<>>) \o HandlerTasks(Tail(parsed))

\* manager._connection_lost_handler: the loop's exception hook
_connection_lost_handler(q) == Append(q, DisconnectTask(TRUE))

\* A receive buffer that forgets the unfinished command
KeptBufferDropped(commands) == <<>>

\* The receive buffer data_received keeps: the bytes after the last NUL
KeptBuffer(commands) == commands[Len(commands)]

\* The body of data_received on the buffer buf: the handler tasks created for
\* the complete commands up to the first that does not decode, whether all of
\* them decoded, and the buffer kept if they did
Dispatch(buf) ==
    LET commands == SplitOn(buf, NUL)
        n        == Len(commands) - 1
        bad      == {i \in 1..n : ~Decodable(commands[i])}
        stop     == IF bad = {} THEN n ELSE Min(bad) - 1
        parsed   == [i \in 1..stop |-> ParseCommand(commands[i])]
    IN  [tasks |-> HandlerTasks(parsed), ok |-> (bad = {}), kept |-> KeptBuffer(commands)]

\* ChatangoProtocol.data_received.  A command that does not decode raises out
\* of data_received: the transport reports it to the loop's exception hook
\* and force-closes, which schedules connection_lost with the error.
data_received(data) ==
    LET buf == rbuff \o data
        d   == Dispatch(buf)
    IN  IF d.ok
        THEN /\ rbuff' = d.kept
             /\ last_command' = clock
             /\ readyQ' = readyQ \o d.tasks
             /\ UNCHANGED <<transport, failed>>
        ELSE /\ rbuff' = buf
             /\ failed' = TRUE
             /\ transport' = "closed"
             /\ readyQ' = Append(_connection_lost_handler(readyQ \o d.tasks),
                                 LostTask("decode_error"))
             /\ UNCHANGED last_command

(***************************************************************************)
(* ch.py: the lifecycle of the single-file implementation                  *)
(***************************************************************************)
\* ch.ChatangoProtocol.disconnect: as base.py's, without the event
ch_disconnect(raise_error, q, ev) ==
    /\ transport' = IF transport = "open" THEN "closed" ELSE transport
    /\ readyQ' = Unschedule(TransportClose(q), ping_task)
    /\ pings' = cancel(pings, ping_task)
    /\ ping_task' = 0
    /\ connected' = raise_error
    /\ events' = ev
    /\ explicit' = (explicit \/ ~raise_error)

\* ch.ChatangoProtocol.ping, any step: test, then send and sleep, or close
ch_ping(id, q) ==
    IF PingAlive
    THEN /\ written' = send_command(transport, written, "", FALSE)
         /\ pings' = [pings EXCEPT ![id] = [st |-> "sleeping", wake |-> clock + _PING_DELAY]]
         /\ readyQ' = q
         /\ UNCHANGED transport
    ELSE /\ pings' = [pings EXCEPT ![id].st = "done"]
         /\ transport' = IF transport = "open" THEN "closed" ELSE transport
         /\ readyQ' = TransportClose(q)
         /\ UNCHANGED written

\* ch.GroupProtocol.connection_made / ch.PMProtocol.connection_made
ch_connection_made ==
    /\ transport' = "open"
    /\ connected' = TRUE
    /\ last_command' = clock
    /\ written' = send_command("open", written,
                               IF kind = "group" THEN "bauth" ELSE "tlogin", TRUE)
    /\ UNCHANGED <<pings, ping_task, readyQ>>

(***************************************************************************)
(* Numbers and dicts                                                       *)
(***************************************************************************)
\* Python's None where a field or an argument is expected
None == <<"<None>">>

\* The numbers the model's commands carry
AtomValue ==
    ("0" :> 0) @@ ("1" :> 1) @@ ("2" :> 2) @@ ("8" :> 8) @@ ("50" :> 50) @@ ("60" :> 60) @@ ("77" :> 77) @@ ("100" :> 100)
        @@ ("200" :> 200)

\* int(field) / float(field) does not raise
IsNumber(field) == Len(field) = 1 /\ field[1] \in DOMAIN AtomValue

Digits == <<"0", "1", "2", "3", "4", "5", "6", "7", "8", "9">>

\* str() of a natural number: its decimal digits
RECURSIVE str(_)
str(n) ==
    IF n < 10 THEN <<Digits[n + 1]>>
    ELSE str(n \div 10) \o <<Digits[(n % 10) + 1]>>

\* int() of one decimal digit
int_digit(c) == CHOOSE d \in 0..9 : Digits[d + 1] = c

\* dict[k] = v and del dict[k]
Put(m, k, v) == [x \in DOMAIN m \cup {k} |-> IF x = k THEN v ELSE m[x]]
Del(m, k) == [x \in DOMAIN m \ {k} |-> m[x]]

EmptyMap == [x \in {} |-> x]

(***************************************************************************)
(* group.py: User.  A User object is a record of the heap `members`; a set *)
(* of Users holds references into it.  A Python set keeps one element per  *)
(* __hash__/__eq__ class, which for Users is the lower-case name.          *)
(***************************************************************************)
\* str.lower() on the names the model's commands carry
lower_atom(a) == IF a = "Al" THEN "al" ELSE a
lower(name) == [i \in DOMAIN name |-> lower_atom(name[i])]

\* None in a set of Users
NoneRef == 0

\* ModFlags(value): the value as given, a str from a command or an int
ModFlags(value, isint) == [v |-> value, int |-> isint]

\* User.__init__
User(name, unid, join_time, mod_flags) ==
    [name    |-> name,
     clients |-> IF unid # None /\ join_time # None
                 THEN Put(EmptyMap, AtomValue[unid[1]], AtomValue[join_time[1]])
                 ELSE EmptyMap,
     flags   |-> mod_flags]

\* User.__eq__ with a str, and with another User
eq_name(ms, r, name) == r # NoneRef /\ lower(ms[r].name) = lower(name)
eq_user(ms, r, s) == r # NoneRef /\ s # NoneRef /\ lower(ms[r].name) = lower(ms[s].name)

\* A set difference that tells Users apart by object, not by name
set_minus_by_object(ms, S, T) == S \ T

\* set.add and set difference under User.__eq__
set_add(ms, S, r) == IF \E s \in S : s = r \/ eq_user(ms, s, r) THEN S ELSE S \cup {r}
set_minus(ms, S, T) == {s \in S : ~\E t \in T : s = t \/ eq_user(ms, s, t)}

\* User.new_client, User.remove_client, User.promote
new_client(ms, r, unid, join_time) ==
    [ms EXCEPT ![r].clients = Put(@, AtomValue[unid[1]], AtomValue[join_time[1]])]

\* A remove_client that forgets every client of the User
remove_client_all(ms, r, unid) ==
    [ms EXCEPT ![r].clients = EmptyMap]

remove_client(ms, r, unid) ==
    [ms EXCEPT ![r].clients = Del(@, AtomValue[unid[1]])]

promote(ms, r, flags) ==
    [ms EXCEPT ![r].flags = ModFlags(AtomValue[flags[1]], TRUE)]

\* User.joined
joined(ms, r) == DOMAIN ms[r].clients # {}

\* An init_mod that does not look for the name in _users
init_mod_always_new(ms, us, args) ==
    IF Len(args) < 2
    THEN [members |-> ms, ref |-> NoneRef, ok |-> FALSE]
    ELSE [members |-> Append(ms, User(args[1], None, None, ModFlags(args[2], FALSE))),
          ref |-> Len(ms) + 1, ok |-> TRUE]

\* User.init_mod(group, args): the heap after it and the User it returns;
\* a missing flags field raises IndexError
init_mod(ms, us, args) ==
    IF Len(args) < 2
    THEN [members |-> ms, ref |-> NoneRef, ok |-> FALSE]
    ELSE IF \E u \in us : eq_name(ms, u, args[1])
    THEN LET u == CHOOSE u \in us : eq_name(ms, u, args[1])
         IN  [members |-> promote(ms, u, args[2]), ref |-> u, ok |-> TRUE]
    ELSE [members |-> Append(ms, User(args[1], None, None, ModFlags(args[2], FALSE))),
          ref |-> Len(ms) + 1, ok |-> TRUE]

\* User.init_participant(group, args): what it can return.  The two loops go
\* through a set in the set's order and stop at the first User that has the
\* name or, for flag 2, the client; with None in _users the second loop of a
\* flag 2 raises AttributeError when it comes to it.
init_participant(ms, md, us, args) ==
    LET flag     == AtomValue[args[1][1]]
        unid     == args[2]
        name     == args[4]
        Hit(S) == {r \in S : /\ r # NoneRef
                             /\ \/ eq_name(ms, r, name)
                                \/ flag = 2 /\ AtomValue[unid[1]] \in DOMAIN ms[r].clients}
        Visit(r) ==
            IF eq_name(ms, r, name)
            THEN [members |-> IF flag # 0 THEN new_client(ms, r, unid, args[7])
                              ELSE remove_client(ms, r, unid),
                  who |-> r, text |-> <<>>, joined |-> (flag # 0), ok |-> TRUE]
            ELSE [members |-> remove_client(ms, r, unid),
                  who |-> r, text |-> <<>>, joined |-> FALSE, ok |-> TRUE]
        Raised == [members |-> ms, who |-> NoneRef, text |-> <<>>, joined |-> FALSE,
                   ok |-> FALSE]
    IN  IF Hit(md) # {}
        THEN {Visit(r) : r \in Hit(md)}
        ELSE IF Hit(us) # {} \/ (flag = 2 /\ NoneRef \in us)
        THEN {Visit(r) : r \in Hit(us)}
                 \cup (IF flag = 2 /\ NoneRef \in us THEN {Raised} ELSE {})
        ELSE IF name = <<"None">>
        THEN {[members |-> ms, who |-> NoneRef,
               text |-> IF flag = 2 THEN args[5] ELSE <<"anon">>,
               joined |-> TRUE, ok |-> TRUE]}
        ELSE {[members |-> Append(ms, User(name, unid, args[7], ModFlags(0, TRUE))),
               who |-> Len(ms) + 1, text |-> <<>>, joined |-> TRUE, ok |-> TRUE]}

\* User.init_g_participant(group, args).  group.users reads .clients of every
\* element of _users, which raises AttributeError on None.
init_g_participant(ms, md, us, args) ==
    IF Len(args) < 4
    THEN [members |-> ms, ref |-> NoneRef, ok |-> FALSE]
    ELSE
    LET name == args[4] IN
    IF name = <<"None">>
    THEN [members |-> ms, ref |-> NoneRef, ok |-> TRUE]
    ELSE IF \E m \in md : eq_name(ms, m, name)
    THEN LET m == CHOOSE m \in md : eq_name(ms, m, name)
         IN  [members |-> new_client(ms, m, args[1], args[2]), ref |-> m, ok |-> TRUE]
    ELSE IF NoneRef \in us
    THEN [members |-> ms, ref |-> NoneRef, ok |-> FALSE]
    ELSE IF \E u \in us : joined(ms, u) /\ eq_name(ms, u, name)
    THEN LET u == CHOOSE u \in us : joined(ms, u) /\ eq_name(ms, u, name)
         IN  [members |-> new_client(ms, u, args[1], args[2]), ref |-> u, ok |-> TRUE]
    ELSE [members |-> Append(ms, User(name, args[1], args[2], ModFlags(0, TRUE))),
          ref |-> Len(ms) + 1, ok |-> TRUE]

\* set(User.init_mod(group, mod.split(',')) for mod in items), item by item
RECURSIVE init_mods(_, _, _, _)
init_mods(ms, us, items, acc) ==
    IF items = <<>>
    THEN [members |-> ms, new |-> acc, ok |-> TRUE]
    ELSE LET r == init_mod(ms, us, SplitOn(Head(items), ","))
         IN  IF ~r.ok
             THEN [members |-> r.members, new |-> acc, ok |-> FALSE]
             ELSE init_mods(r.members, us, Tail(items), set_add(r.members, acc, r.ref))

\* The elements of a list
Range(f) == {f[i] : i \in DOMAIN f}

\* The orders a for loop can take a set in
SeqsOf(S) ==
    {f \in [1..Cardinality(S) -> S] : \A i, j \in DOMAIN f : i # j => f[i] # f[j]}

(***************************************************************************)
(* generate.py: anonymous ids.  A str is the sequence of its characters.    *)
(***************************************************************************)
\* The characters of the session ids the model's ok commands carry
IdDigits ==
    ("1234" :> <<"1", "2", "3", "4">>)
        @@ ("0000567800000000" :> <<"0", "0", "0", "0", "5", "6", "7", "8",
                                    "0", "0", "0", "0", "0", "0", "0", "0">>)
        @@ ("1234999912345678" :> <<"1", "2", "3", "4", "9", "9", "9", "9",
                                    "1", "2", "3", "4", "5", "6", "7", "8">>)

\* The characters of a field that is one atom
Chars(field) == IF field = <<>> THEN <<>> ELSE IdDigits[field[1]]

\* ncolor.rsplit('.', 1)[0]
rsplit_dot(s) ==
    LET dots == {i \in DOMAIN s : s[i] = "."}
    IN  IF dots = {} THEN s
        ELSE SubSeq(s, 1, (CHOOSE i \in dots : \A j \in dots : j <= i) - 1)

\* ncolor[-4:]
last4(s) == SubSeq(s, IF Len(s) > 4 THEN Len(s) - 3 ELSE 1, Len(s))

\* int(ncolor) does not raise ValueError
IntAble(s) == s # <<>> /\ \A i \in DOMAIN s : s[i] \in Range(Digits)

\* group_id[4:8]
id_4_8(group_id) == SubSeq(group_id, 5, IF Len(group_id) < 8 THEN Len(group_id) ELSE 8)

\* An aid that reads group_id[0:4]
generate_aid_first_digits(ncolor, group_id) ==
    LET n4 == last4(rsplit_dot(ncolor))
        n  == IF IntAble(n4) THEN n4 ELSE <<"3", "4", "5", "2">>
        v  == SubSeq(group_id, 1, IF Len(group_id) < 4 THEN Len(group_id) ELSE 4)
    IN  [i \in 1..(IF Len(n) < Len(v) THEN Len(n) ELSE Len(v)) |->
            Digits[((int_digit(n[i]) + int_digit(v[i])) % 10) + 1]]

\* generate.aid: map stops at the shorter of its two arguments
generate_aid(ncolor, group_id) ==
    LET n4 == last4(rsplit_dot(ncolor))
        n  == IF IntAble(n4) THEN n4 ELSE <<"3", "4", "5", "2">>
        v  == id_4_8(group_id)
    IN  [i \in 1..(IF Len(n) < Len(v) THEN Len(n) ELSE Len(v)) |->
            Digits[((int_digit(n[i]) + int_digit(v[i])) % 10) + 1]]

\* A reverse_aid that adds the session id's digits instead of subtracting them
reverse_aid_adds(goal, group_id) ==
    LET v == id_4_8(group_id)
    IN  [i \in 1..(IF Len(goal) < Len(v) THEN Len(goal) ELSE Len(v)) |->
            Digits[((int_digit(goal[i]) + int_digit(v[i])) % 10) + 1]]

\* generate.reverse_aid
reverse_aid(goal, group_id) ==
    LET v == id_4_8(group_id)
    IN  [i \in 1..(IF Len(goal) < Len(v) THEN Len(goal) ELSE Len(v)) |->
            Digits[((int_digit(goal[i]) - int_digit(v[i])) % 10) + 1]]

\* generate.anon_ncolor: the values random.randrange gives in the model
anon_ncolor == {<<"0", "0", "0", "7">>, <<"9", "8", "7", "6">>}

(***************************************************************************)
(* Handshake handlers                                                      *)
(***************************************************************************)
\* self.disconnect(raise_error) of the implementation in use
Disconnect(raise_error, q, ev) ==
    IF impl = "pkg" THEN disconnect(raise_error, q, ev)
    ELSE ch_disconnect(raise_error, q, ev)

\* GroupProtocol.connection_made / PMProtocol.connection_made
sub_connection_made ==
    /\ connection_made
    /\ written' = send_command("open", written,
                               IF kind = "group" THEN "bauth" ELSE "tlogin", TRUE)

\* group.GroupProtocol._recv_ok
_recv_ok(args, q) ==
    /\ IF args[3] = <<"C">>
       THEN IF username
            THEN /\ written' = send_command(transport, written, "blogin", FALSE)
                 /\ UNCHANGED <<aid, n_color>>
            ELSE /\ \E ncolor \in (IF aid # None
                                    THEN {reverse_aid(aid, Chars(args[2]))}
                                    ELSE anon_ncolor) :
                      /\ n_color' = ncolor
                      /\ aid' = generate_aid(ncolor, Chars(args[2]))
                 /\ UNCHANGED written
       ELSE /\ aid' = None
            /\ UNCHANGED <<written, n_color>>
    /\ uid' = args[2]
    /\ owner' = args[1]
    /\ LET r == init_mods(members, users, SplitOn(args[7], ";"), {})
       IN  IF args[7] = <<>>
           THEN mods' = {} /\ UNCHANGED members
           ELSE /\ members' = r.members
                /\ mods' = IF r.ok THEN r.new ELSE mods
    /\ readyQ' = q
    /\ UNCHANGED <<transport, connected, ping_task, pings, events, explicit>>

\* ch.GroupProtocol._recv_ok
ch_recv_ok(args, q) ==
    IF args[3] = <<"C">> /\ password
    THEN /\ ch_disconnect(FALSE, q, _call_event(events, "on_login_fail", ""))
         /\ UNCHANGED <<written, storeVars, members, mods>>
    ELSE /\ IF args[3] = <<"C">>
            THEN IF ~username
                 THEN /\ \E ncolor \in (IF aid # None
                                         THEN {reverse_aid(aid, Chars(args[2]))}
                                         ELSE anon_ncolor) :
                           /\ aid' = generate_aid(ncolor, Chars(args[2]))
                           /\ n_color' = ncolor
                      /\ UNCHANGED written
                 ELSE /\ written' = send_command(transport, written, "blogin", FALSE)
                      /\ UNCHANGED <<aid, n_color>>
            ELSE /\ aid' = None
                 /\ UNCHANGED <<written, n_color>>
         /\ uid' = args[2]
         /\ owner' = args[1]
         /\ mods' = {lower(SplitOn(m, ",")[1]) : m \in Range(SplitOn(args[7], ";"))}
         /\ UNCHANGED members
         /\ pings' = Append(pings, [st |-> "ready", wake |-> 0])
         /\ ping_task' = Len(pings) + 1
         /\ readyQ' = Append(q, PingTask(Len(pings) + 1))
         /\ UNCHANGED <<transport, connected, events, explicit>>

\* GroupProtocol._recv_denied (group.py and ch.py)
_recv_denied(q) ==
    /\ Disconnect(FALSE, q, _call_event(events, "on_denied", ""))
    /\ UNCHANGED <<written, storeVars>>

\* PMProtocol._recv_OK (private.py and ch.py): self.send_send_cnd does not
\* exist, so the handler raises AttributeError before it creates a keepalive
_recv_OK(q) ==
    /\ events' = _call_event(events, "on_pm_connect", "")
    /\ written' = send_command(transport, written, "settings", FALSE)
    /\ readyQ' = q
    /\ UNCHANGED <<transport, connected, ping_task, pings, explicit, storeVars>>

(***************************************************************************)
(* Frames the server sends                                                 *)
(***************************************************************************)
OkFrame(flag) ==
    <<"ok", ":", "owner", ":", "1234", ":", flag, ":", "a3", ":", "a4", ":", "a5",
      ":", "al", ",", "8", "CR", "LF", NUL>>
DeniedFrame == <<"denied", "CR", "LF", NUL>>
PmOkFrame   == <<"OK", "CR", "LF", NUL>>
EmptyFrame  == <<"CR", "LF", NUL>>
BadFrame    == <<"xFF", "CR", "LF", NUL>>

HandshakeFrames ==
    IF kind = "pm"
    THEN {PmOkFrame, EmptyFrame, BadFrame}
    ELSE {OkFrame("C"), OkFrame("M"), DeniedFrame, BadFrame}

\* Every concatenation of k frames of a menu
RECURSIVE FrameSeqs(_, _)
FrameSeqs(menu, k) ==
    IF k = 0 THEN {<<>>}
    ELSE {f \o r : f \in menu, r \in FrameSeqs(menu, k - 1)}

ChunksOf(menu) == UNION {FrameSeqs(menu, k) : k \in ChunkSizes}

(***************************************************************************)
(* The session lifecycle: Spec                                             *)
(***************************************************************************)
InitRoom ==
    /\ messages = EmptyMap
    /\ updates = EmptyMap
    /\ lists = <<<<>>>>
    /\ last_message = 0
    /\ history_count = 0
    /\ no_more = FALSE
    /\ ready = FALSE

\* ChatangoProtocol.__init__ and Connection.__init__, the anonymous id apart
NewSession ==
    /\ transport = "none"
    /\ connected = FALSE
    /\ ping_task = 0
    /\ pings = <<>>
    /\ clock = 0
    /\ last_command = -1
    /\ readyQ = <<>>
    /\ events = <<>>
    /\ written = <<>>
    /\ f_size = 11
    /\ f_color = <<>>
    /\ protocols = <<>>
    /\ _groups = <<>>
    /\ privates = 0
    /\ owner = None
    /\ rbuff = <<>>
    /\ failed = FALSE
    /\ inbound = <<>>
    /\ dispatched = <<>>
    /\ chunks = 0
    /\ explicit = FALSE
    /\ lost = "no"
    /\ handled = <<>>
    /\ disconnects = 0
    /\ calls = <<>>
    /\ members = <<>>
    /\ users = {}
    /\ mods = {}
    /\ bans = <<>>
    /\ banned = << <<>>, <<>> >>

InitSession ==
    /\ flagsobj = None
    /\ aid = None
    /\ n_color = None
    /\ uid = <<"1234">>
    /\ NewSession

\* A session before its connection is made.  A PM session always logs in
\* (private.pm_auth); the ch.py sessions explored are the logged-in ones.
Init ==
    /\ impl \in {"pkg", "ch"}
    /\ kind \in {"group", "pm"}
    /\ username \in BOOLEAN
    /\ password \in BOOLEAN
    /\ login = IF username THEN <<"al">> ELSE <<>>
    /\ password => username
    /\ (kind = "pm" \/ impl = "ch") => password
    /\ InitSession
    /\ InitRoom

\* The loop runs I/O callbacks after the tasks of earlier iterations: only
\* work the application scheduled in this iteration can still be queued.
IoReady ==
    /\ transport = "open"
    /\ \A i \in DOMAIN readyQ : readyQ[i].type = "disconnect" /\ readyQ[i].arg = FALSE

\* The transport is established: connection_made of the session's class
ConnectionMade ==
    /\ transport = "none"
    /\ IF impl = "pkg" THEN sub_connection_made ELSE ch_connection_made
    /\ UNCHANGED <<configVars, formatVars, managerVars, flagsobj, calls, groupVars, roomVars, frameVars, storeVars, clock, events, chunks,
                   explicit, lost, handled, disconnects>>

\* The socket is readable: data_received with one chunk
DataReceived ==
    /\ IoReady
    /\ chunks < MaxChunks
    /\ \E data \in ChunksOf(HandshakeFrames) : data_received(data)
    /\ chunks' = chunks + 1
    /\ UNCHANGED <<configVars, formatVars, managerVars, flagsobj, calls, groupVars, roomVars, storeVars, connected, ping_task, pings, clock,
                   events, written, inbound, dispatched, explicit, lost, handled,
                   disconnects>>

\* The peer closes: the transport closes itself, connection_lost(None) follows
Eof ==
    /\ IoReady
    /\ transport' = "closed"
    /\ readyQ' = Append(readyQ, LostTask("none"))
    /\ UNCHANGED <<configVars, formatVars, managerVars, flagsobj, calls, groupVars, roomVars, frameVars, storeVars, connected, ping_task,
                   pings, clock, last_command, events, written, chunks, explicit, lost,
                   handled, disconnects>>

\* A socket error: the transport force-closes, connection_lost(exc) follows
SocketError ==
    /\ IoReady
    /\ transport' = "closed"
    /\ readyQ' = Append(readyQ, LostTask("os_error"))
    /\ UNCHANGED <<configVars, formatVars, managerVars, flagsobj, calls, groupVars, roomVars, frameVars, storeVars, connected, ping_task,
                   pings, clock, last_command, events, written, chunks, explicit, lost,
                   handled, disconnects>>

\* The application schedules protocol.disconnect()
AppDisconnect ==
    /\ transport # "none"
    /\ disconnects < MaxDisconnects
    /\ disconnects' = disconnects + 1
    /\ readyQ' = Append(readyQ, DisconnectTask(FALSE))
    /\ UNCHANGED <<configVars, formatVars, managerVars, flagsobj, calls, groupVars, roomVars, frameVars, storeVars, transport, connected,
                   ping_task, pings, clock, last_command, events, written, chunks,
                   explicit, lost, handled>>

\* The loop runs a scheduled disconnect()
RunDisconnect ==
    /\ readyQ # <<>>
    /\ Head(readyQ).type = "disconnect"
    /\ Disconnect(Head(readyQ).arg, Tail(readyQ), events)
    /\ UNCHANGED <<configVars, formatVars, managerVars, flagsobj, calls, groupVars, roomVars, frameVars, storeVars, clock, last_command,
                   written, chunks, lost, handled, disconnects>>

\* The loop runs the transport's connection_lost callback
RunLost ==
    /\ readyQ # <<>>
    /\ Head(readyQ).type = "lost"
    /\ connection_lost(Head(readyQ).arg, Tail(readyQ))
    /\ UNCHANGED <<configVars, formatVars, managerVars, flagsobj, calls, groupVars, roomVars, frameVars, storeVars, transport, connected,
                   ping_task, clock, last_command, written, chunks, explicit, handled,
                   disconnects>>

\* The loop runs the first step of a keepalive task
RunPing ==
    /\ readyQ # <<>>
    /\ Head(readyQ).type = "ping"
    /\ IF impl = "pkg"
       THEN ping_start(Head(readyQ).id, Tail(readyQ))
       ELSE ch_ping(Head(readyQ).id, Tail(readyQ))
    /\ UNCHANGED <<configVars, formatVars, managerVars, flagsobj, calls, groupVars, roomVars, frameVars, storeVars, connected, ping_task,
                   clock, last_command, events, chunks, explicit, lost, handled,
                   disconnects>>

\* A keepalive task's sleep ends
PingWake ==
    \E id \in DOMAIN pings :
        /\ pings[id].st = "sleeping"
        /\ pings[id].wake <= clock
        /\ IF impl = "pkg" THEN ping_wake(id) ELSE ch_ping(id, readyQ)
        /\ UNCHANGED <<configVars, formatVars, managerVars, flagsobj, calls, groupVars, roomVars, frameVars, storeVars, connected, ping_task,
                       clock, last_command, events, chunks, explicit, lost, handled,
                       disconnects>>

IsRecv(cmd) ==
    /\ readyQ # <<>>
    /\ Head(readyQ).type = "recv"
    /\ Head(readyQ).cmd = cmd

Handled(t) == Append(handled, <<t.cmd, t.arg>>)

\* The loop runs the handler task of a login acknowledgment
RunOk ==
    /\ IsRecv(<<"ok">>)
    /\ IF impl = "pkg"
       THEN _recv_ok(Head(readyQ).arg, Tail(readyQ))
       ELSE ch_recv_ok(Head(readyQ).arg, Tail(readyQ))
    /\ UNCHANGED <<configVars, formatVars, managerVars, flagsobj, calls, users, bans, banned, roomVars, frameVars, clock,
                   last_command, chunks, lost, handled, disconnects>>

RunDenied ==
    /\ IsRecv(<<"denied">>)
    /\ _recv_denied(Tail(readyQ))
    /\ UNCHANGED <<configVars, formatVars, managerVars, flagsobj, calls, groupVars, roomVars, frameVars, clock, last_command, chunks, lost,
                   handled, disconnects>>

RunPmOK ==
    /\ IsRecv(<<"OK">>)
    /\ _recv_OK(Tail(readyQ))
    /\ UNCHANGED <<configVars, formatVars, managerVars, flagsobj, calls, groupVars, roomVars, frameVars, clock, last_command, chunks, lost,
                   handled, disconnects>>

\* Time passes while the session is live: no callback is ready and no timer
\* is overdue
Tick ==
    \E d \in TickSteps :
        /\ readyQ = <<>>
        /\ transport = "open" \/ \E id \in DOMAIN pings : pings[id].st = "sleeping"
        /\ clock + d <= MaxTime
        /\ \A id \in DOMAIN pings : pings[id].st = "sleeping" => pings[id].wake >= clock + d
        /\ clock' = clock + d
        /\ UNCHANGED <<configVars, formatVars, managerVars, flagsobj, calls, groupVars, roomVars, frameVars, storeVars, transport, connected,
                       ping_task, pings, last_command, readyQ, events, written, chunks,
                       explicit, lost, handled, disconnects>>

Next ==
    \/ ConnectionMade
    \/ DataReceived
    \/ Eof
    \/ SocketError
    \/ AppDisconnect
    \/ RunDisconnect
    \/ RunLost
    \/ RunPing
    \/ PingWake
    \/ RunOk
    \/ RunDenied
    \/ RunPmOK
    \/ Tick

Spec == Init /\ [][Next]_vars

(***************************************************************************)
(* Properties of the session lifecycle                                     *)
(***************************************************************************)
EventCount(name) == Cardinality({i \in DOMAIN events : events[i].name = name})

Sleeping(id) == pings[id].st \in {"ready", "sleeping"}

\* C4: once disconnect() has run with raise_error false, the connection_lost
\* that follows emits no on_connection_error.
C4_ExplicitDisconnectSuppressesError ==
    lost = "after_disconnect" => EventCount("on_connection_error") = 0

\* C5: no on_connection_error is raised before the transport closes; when
\* connection_lost runs without an explicit disconnect() before it, exactly
\* one on_connection_error is raised and it carries the transport's error
\* (none, a socket error or the decoding error).
C5_AbruptCloseRaisesOneError ==
    /\ lost = "no" => EventCount("on_connection_error") = 0
    /\ lost \in {"none", "os_error", "decode_error"} =>
          /\ EventCount("on_connection_error") = 1
          /\ \A i \in DOMAIN events :
                events[i].name = "on_connection_error" => events[i].arg = lost

C5_Witness ==
    /\ lost = "decode_error"
    /\ ~explicit
    /\ EventCount("on_connection_error") = 1

\* A step in which keepalive task id tests its loop condition
PingCheck(id) ==
    /\ Sleeping(id)
    /\ pings'[id] # pings[id]
    /\ pings'[id].st \in {"sleeping", "done"}

\* C6: a keepalive check ends the loop exactly when 60 seconds or more have
\* passed since the last received data, and then the transport is closed; a
\* loop that goes on checks again 15 seconds later.
C6_KeepaliveClosesWhenIdle ==
    [][\A id \in DOMAIN pings :
         PingCheck(id) =>
            /\ (pings'[id].st = "done") <=> (clock - last_command >= _LONGEST_PING)
            /\ pings'[id].st = "done" =>
                  /\ transport' = "closed"
                  /\ transport = "open" => readyQ'[Len(readyQ')] = LostTask("none")
            /\ pings'[id].st = "sleeping" => pings'[id].wake = clock + _PING_DELAY]_vars

\* Data at 15 s kept the loop alive at 60 s; it closed the transport at 75 s
C6_Witness ==
    /\ \E id \in DOMAIN pings : pings[id].st = "done"
    /\ transport = "closed"
    /\ ~explicit
    /\ chunks > 0
    /\ last_command = _PING_DELAY
    /\ clock = last_command + _LONGEST_PING

\* C26: the first frame a session writes is the handshake of its kind (bauth
\* for a room, tlogin for PM) ended by NUL without CRLF; every later frame,
\* the keepalive included, ends with CRLF and NUL.
C26_HandshakeFirstWithoutCrlf ==
    /\ (transport = "none") => written = <<>>
    /\ written # <<>> =>
          /\ written[1].cmd = (IF kind = "group" THEN "bauth" ELSE "tlogin")
          /\ ~written[1].crlf
          /\ \A i \in 2..Len(written) :
                written[i].crlf /\ written[i].cmd \notin {"bauth", "tlogin"}

\* A logged-in room session wrote bauth, then blogin and a keepalive
C26_Witness ==
    /\ kind = "group"
    /\ Len(written) >= 3
    /\ written[1].cmd = "bauth"
    /\ \E i, j \in 2..Len(written) :
          written[i].cmd = "blogin" /\ written[j].cmd = ""

\* This step runs the handler of a login acknowledgment with flag C in a
\* session that supplied a username and a password
LoginRefusedStep ==
    /\ IsRecv(<<"ok">>)
    /\ Head(readyQ).arg[3] = <<"C">>
    /\ username /\ password
    /\ \/ Len(readyQ') < Len(readyQ)
       \/ SubSeq(readyQ', 1, Len(readyQ)) # readyQ

\* C27: when a username and a password were supplied and the login
\* acknowledgment carries flag C (not logged in), the handler raises
\* on_login_fail, disconnects, stores no owner and no moderators and writes
\* no further handshake command.
C27_LoginFailDisconnects ==
    [][LoginRefusedStep
         => /\ Len(events') > Len(events)
            /\ SubSeq(events', 1, Len(events) + 1)
                  = _call_event(events, "on_login_fail", "")
            /\ transport' = "closed"
            /\ ~connected'
            /\ UNCHANGED <<owner, mods, members, written>>]_vars

AlreadyDisconnected ==
    /\ transport = "closed"
    /\ ~connected
    /\ ping_task = 0
    /\ explicit

\* C7: disconnect() on a session that is already disconnected changes no
\* session state, writes nothing and emits no event.
C7_DisconnectTwiceIsNoOp ==
    [][(/\ readyQ # <<>>
        /\ Head(readyQ) = DisconnectTask(FALSE)
        /\ readyQ' = Tail(readyQ)
        /\ AlreadyDisconnected)
       => UNCHANGED <<transport, connected, ping_task, pings, written, events>>]_vars

\* C8: after an explicit disconnect() no keepalive task of the session is
\* scheduled or sleeping.
C8_NoKeepaliveAfterDisconnect ==
    explicit => \A id \in DOMAIN pings : ~Sleeping(id)

\* C39: after an explicit disconnect() has returned, no outbound command is
\* written for the session any more: not by the handlers of commands that
\* were received before it, and not by the keepalive loop.
C39_NoWriteAfterDisconnect ==
    [][explicit => written' = written]_vars

\* After disconnect() returned, the handler of an ok command that was
\* received before it has written blogin to the transport that was closed
C39_Counterexample ==
    /\ impl = "pkg"
    /\ explicit
    /\ written # <<>>
    /\ written[Len(written)].cmd = "blogin"
    /\ ~written[Len(written)].open

(***************************************************************************)
(* post.py: the Post a room command builds.  raw is the argument list of   *)
(* the command; raw[k] of the code is raw[k + 1] here.                     *)
(***************************************************************************)
\* Tags format_raw removes
Tags == {"<b>", "</b>"}

\* format_raw, tag by tag: <br/> becomes a newline, other tags go, entities
\* are unescaped
RECURSIVE untag(_)
untag(raw) ==
    IF raw = <<>> THEN <<>>
    ELSE (IF raw[1] = "<br/>" THEN <<"LF">>
          ELSE IF raw[1] \in Tags THEN <<>>
          ELSE IF raw[1] = "&amp;" THEN <<"&">>
          ELSE <<raw[1]>>) \o untag(Tail(raw))

\* format_raw: the trailing newlines are removed
RECURSIVE strip_newlines(_)
strip_newlines(raw) ==
    IF raw # <<>> /\ raw[Len(raw)] = "LF"
    THEN strip_newlines(SubSeq(raw, 1, Len(raw) - 1))
    ELSE raw

format_raw(raw) == strip_newlines(untag(raw))

\* Post._base returns: raw has a message field and its numbers parse
PostValid(raw) ==
    /\ Len(raw) >= 10
    /\ IsNumber(raw[4])
    /\ IsNumber(raw[8])
    /\ IsNumber(raw[1])

\* Post._base
Post_base(raw) ==
    [time |-> AtomValue[raw[1][1]],
     post |-> format_raw(Join(SubSeq(raw, 10, Len(raw)), ":")),
     user |-> IF raw[2] # <<>> THEN raw[2]
              ELSE IF raw[3] # <<>> THEN <<"#">> \o raw[3]
              ELSE <<"!anon">>,
     unid |-> None,
     pnum |-> None]

\* Post.normal
Post_normal(raw) == [Post_base(raw) EXCEPT !.pnum = raw[6]]

\* Post.history
Post_history(raw) == [Post_base(raw) EXCEPT !.unid = raw[6]]

(***************************************************************************)
(* group.py: the room handlers                                             *)
(***************************************************************************)
Max(a, b) == IF a > b THEN a ELSE b

\* self._history is the first list object
HistoryRef == 1
_history == lists[HistoryRef]

\* A flush that hands out the accumulator itself
alias_ref(ls, ref) == ref

\* list.copy(): the new list object and the objects alive after it
copy_ref(ls, ref) == Len(ls) + 1
copy_heap(ls, ref) == Append(ls, ls[ref])

\* list.clear() and list.append(x)
list_clear(ls, ref) == [ls EXCEPT ![ref] = <<>>]
list_append(ls, ref, x) == [ls EXCEPT ![ref] = Append(@, x)]

\* self._call_event("on_history_done", self._history.copy()); self._history.clear()
flush_event(ev) == _call_event(ev, "on_history_done", copy_ref(lists, HistoryRef))
flush_lists == list_clear(copy_heap(lists, HistoryRef), HistoryRef)

\* _recv_b that buffers the post whether or not its id is known
_recv_b_always_buffers(args, q) ==
    /\ readyQ' = q
    /\ IF PostValid(args)
       THEN /\ last_message' = Max(last_message, Post_normal(args).time)
            /\ messages' = Put(messages, Post_normal(args).pnum, Post_normal(args))
            /\ UNCHANGED <<updates, events>>
       ELSE UNCHANGED <<last_message, messages, updates, events>>
    /\ UNCHANGED <<lists, history_count, no_more, ready, written>>

\* GroupProtocol._recv_b
_recv_b(args, q) ==
    /\ readyQ' = q
    /\ IF PostValid(args)
       THEN LET post == Post_normal(args)
            IN  /\ last_message' = Max(last_message, post.time)
                /\ IF post.pnum \in DOMAIN updates
                   THEN /\ events' = _call_event(events, "on_message",
                                                 [post EXCEPT !.unid = updates[post.pnum]])
                        /\ updates' = Del(updates, post.pnum)
                        /\ UNCHANGED messages
                   ELSE /\ messages' = Put(messages, post.pnum, post)
                        /\ UNCHANGED <<updates, events>>
       ELSE UNCHANGED <<last_message, messages, updates, events>>
    /\ UNCHANGED <<lists, history_count, no_more, ready, written>>

\* _recv_u that emits the post and leaves it buffered
_recv_u_keeps_message(args, q) ==
    /\ readyQ' = q
    /\ IF Len(args) = 0
       THEN UNCHANGED <<messages, updates, events>>
       ELSE IF args[1] \in DOMAIN messages
       THEN /\ UNCHANGED messages
            /\ events' = IF Len(args) >= 2
                         THEN _call_event(events, "on_message",
                                          [messages[args[1]] EXCEPT !.unid = args[2]])
                         ELSE events
            /\ UNCHANGED updates
       ELSE /\ updates' = IF Len(args) >= 2 THEN Put(updates, args[1], args[2]) ELSE updates
            /\ UNCHANGED <<messages, events>>
    /\ UNCHANGED <<lists, last_message, history_count, no_more, ready, written>>

\* GroupProtocol._recv_u.  Without an id argument args[1] raises IndexError,
\* after the buffered post was deleted.
_recv_u(args, q) ==
    /\ readyQ' = q
    /\ IF Len(args) = 0
       THEN UNCHANGED <<messages, updates, events>>
       ELSE IF args[1] \in DOMAIN messages
       THEN /\ messages' = Del(messages, args[1])
            /\ events' = IF Len(args) >= 2
                         THEN _call_event(events, "on_message",
                                          [messages[args[1]] EXCEPT !.unid = args[2]])
                         ELSE events
            /\ UNCHANGED updates
       ELSE /\ updates' = IF Len(args) >= 2 THEN Put(updates, args[1], args[2]) ELSE updates
            /\ UNCHANGED <<messages, events>>
    /\ UNCHANGED <<lists, last_message, history_count, no_more, ready, written>>

\* GroupProtocol._recv_i
_recv_i(args, q) ==
    /\ readyQ' = q
    /\ IF PostValid(args)
       THEN /\ last_message' = Max(last_message, Post_history(args).time)
            /\ lists' = list_append(lists, HistoryRef, Post_history(args))
       ELSE UNCHANGED <<last_message, lists>>
    /\ UNCHANGED <<messages, updates, events, history_count, no_more, ready, written>>

\* A handshake flush that also counts as a retrieved batch
_recv_inited_counts_batch(q) ==
    /\ readyQ' = q
    /\ written' = send_command(transport,
                     send_command(transport,
                       send_command(transport,
                         send_command(transport, written, "gparticipants", FALSE),
                         "getpremium", FALSE),
                       "getbannedwords", FALSE),
                     "getratelimit", FALSE)
    /\ ready' = TRUE
    /\ events' = flush_event(_call_event(events, "on_connect", ""))
    /\ lists' = flush_lists
    /\ history_count' = history_count + 1
    /\ UNCHANGED <<messages, updates, last_message, no_more>>

\* An _recv_inited that does not ask for the roster
_recv_inited_no_roster(q) ==
    /\ readyQ' = q
    /\ written' = send_command(transport,
                     send_command(transport,
                       send_command(transport, written, "getpremium", FALSE),
                       "getbannedwords", FALSE),
                     "getratelimit", FALSE)
    /\ ready' = TRUE
    /\ events' = flush_event(_call_event(events, "on_connect", ""))
    /\ lists' = flush_lists
    /\ UNCHANGED <<messages, updates, last_message, history_count, no_more>>

\* GroupProtocol._recv_inited
_recv_inited(q) ==
    /\ readyQ' = q
    /\ written' = send_command(transport,
                     send_command(transport,
                       send_command(transport,
                         send_command(transport, written, "gparticipants", FALSE),
                         "getpremium", FALSE),
                       "getbannedwords", FALSE),
                     "getratelimit", FALSE)
    /\ ready' = TRUE
    /\ events' = flush_event(_call_event(events, "on_connect", ""))
    /\ lists' = flush_lists
    /\ UNCHANGED <<messages, updates, last_message, history_count, no_more>>

\* GroupProtocol._recv_gotmore
_recv_gotmore(q) ==
    /\ readyQ' = q
    /\ events' = flush_event(events)
    /\ lists' = flush_lists
    /\ history_count' = history_count + 1
    /\ UNCHANGED <<messages, updates, last_message, no_more, ready, written>>

\* GroupProtocol._recv_nomore
_recv_nomore(q) ==
    /\ readyQ' = q
    /\ no_more' = TRUE
    /\ events' = _call_event(events, "on_no_more", "")
    /\ UNCHANGED <<messages, updates, lists, last_message, history_count, ready, written>>

\* The argument of a roster event: a User, or a str where no User is meant
Member(r) == [user |-> r, text |-> <<>>]
Text(t)   == [user |-> NoneRef, text |-> t]

\* The for loop of _recv_gparticipants: _users.add(User.init_g_participant(...))
RECURSIVE add_people(_, _, _, _)
add_people(ms, md, us, people) ==
    IF people = <<>>
    THEN [members |-> ms, users |-> us, ok |-> TRUE]
    ELSE LET r == init_g_participant(ms, md, us, SplitOn(Head(people), ":"))
         IN  IF ~r.ok
             THEN [members |-> ms, users |-> us, ok |-> FALSE]
             ELSE add_people(r.members, md, set_add(r.members, us, r.ref), Tail(people))

\* GroupProtocol._recv_gparticipants
_recv_gparticipants(args, q) ==
    LET people == SplitOn(Join(SubSeq(args, 2, Len(args)), ":"), ";")
        r == IF people[1] # <<>>
             THEN add_people(members, mods, {}, people)
             ELSE [members |-> members, users |-> {}, ok |-> TRUE]
    IN  /\ readyQ' = q
        /\ members' = r.members
        /\ users' = r.users
        /\ events' = IF r.ok THEN _call_event(events, "on_participants", "")
                      ELSE events
        /\ UNCHANGED mods

\* GroupProtocol._recv_participant
_recv_participant(args, q) ==
    \E o \in init_participant(members, mods, users, args) :
        /\ readyQ' = q
        /\ members' = o.members
        /\ IF ~o.ok
           THEN UNCHANGED <<users, events>>
           ELSE IF o.joined
           THEN /\ users' = IF o.who # NoneRef THEN set_add(o.members, users, o.who)
                             ELSE users
                /\ events' = _call_event(events, "on_member_join",
                                 IF o.who # NoneRef THEN Member(o.who) ELSE Text(o.text))
           ELSE /\ events' = _call_event(events, "on_member_leave",
                                 IF o.who # NoneRef THEN Member(o.who) ELSE Text(o.text))
                /\ UNCHANGED users
        /\ UNCHANGED mods

\* The events of one for loop of _recv_mods, in the order ord
ModEvents(name, ord) == [i \in DOMAIN ord |-> [name |-> name, arg |-> Member(ord[i])]]

\* GroupProtocol._recv_mods
_recv_mods(args, q) ==
    LET r == init_mods(members, users, args, {})
        added == set_minus(r.members, r.new, mods)
        removed == set_minus(r.members, mods \cup added, r.new)
    IN  /\ readyQ' = q
        /\ members' = r.members
        /\ IF ~r.ok
           THEN UNCHANGED <<mods, events>>
           ELSE /\ mods' = (mods \cup added) \ removed
                /\ \E a \in SeqsOf(added), d \in SeqsOf(removed) :
                      events' = _call_event(
                                    events \o ModEvents("on_mod_add", a)
                                           \o ModEvents("on_mod_remove", d),
                                    "on_mod_change", "")
        /\ UNCHANGED users

(***************************************************************************)
(* The room session: SpecRoom.  The session is connected and its keepalive *)
(* sleeps; the server sends room commands, one or more to a chunk, and the *)
(* loop runs the handler tasks in the order data_received created them.    *)
(***************************************************************************)
BodyA == <<"hi", "<br/>">>
BodyB == <<"a", ":", "<b>", "b">>

\* b and i: time, user, temporary name, session id, mod id, pnum or unid, ip,
\* channel and badge, an unused field, then the message
PostFrame(mnemonic, time, id, body) ==
    <<mnemonic, ":", time, ":", "bob", ":", ":", "77", ":", "m1", ":", id, ":", "ip",
      ":", "0", ":", "x", ":">> \o body \o <<"CR", "LF", NUL>>

UFrame(pnum, unid) == <<"u", ":", pnum, ":", unid, "CR", "LF", NUL>>
InitedFrame  == <<"inited", "CR", "LF", NUL>>
GotmoreFrame == <<"gotmore", "CR", "LF", NUL>>
NomoreFrame  == <<"nomore", "CR", "LF", NUL>>

Pnums == {<<"p1">>, <<"p2">>}

RoomFrames ==
    {PostFrame("b", "100", "p1", BodyA), PostFrame("b", "200", "p1", BodyB),
     PostFrame("b", "100", "p2", BodyA),
     UFrame("p1", "d1"), UFrame("p1", "d2"), UFrame("p2", "d1"),
     PostFrame("i", "50", "d8", BodyA), PostFrame("i", "60", "d9", BodyB),
     InitedFrame, GotmoreFrame, NomoreFrame}

\* A room session of the package after connection_made
ConnectedSession ==
    /\ impl = "pkg"
    /\ kind = "group"
    /\ transport = "open"
    /\ connected = TRUE
    /\ ping_task = 1
    /\ pings = <<[st |-> "sleeping", wake |-> _PING_DELAY]>>
    /\ clock = 0
    /\ last_command = 0
    /\ readyQ = <<>>
    /\ events = <<>>
    /\ written = send_command("open", <<>>, "bauth", TRUE)
    /\ aid = None
    /\ n_color = None
    /\ uid = <<"1234">>
    /\ flagsobj = None
    /\ f_size = 11
    /\ f_color = <<>>
    /\ protocols = <<>>
    /\ _groups = <<>>
    /\ privates = 0
    /\ owner = None
    /\ rbuff = <<>>
    /\ failed = FALSE
    /\ inbound = <<>>
    /\ dispatched = <<>>
    /\ chunks = 0
    /\ explicit = FALSE
    /\ lost = "no"
    /\ handled = <<>>
    /\ disconnects = 0
    /\ calls = <<>>
    /\ members = <<>>
    /\ users = {}
    /\ mods = {}
    /\ bans = <<>>
    /\ banned = << <<>>, <<>> >>
    /\ InitRoom

InitRoomSession ==
    /\ username = FALSE
    /\ password = FALSE
    /\ login = <<>>
    /\ ConnectedSession

\* The handler tasks a step appended to the queue, as <<mnemonic, args>>
TaskNames(ts) == [i \in DOMAIN ts |-> <<ts[i].cmd, ts[i].arg>>]
NewTasks ==
    TaskNames(SelectSeq(SubSeq(readyQ', Len(readyQ) + 1, Len(readyQ')),
                        LAMBDA t : t.type = "recv"))

sessionVars == <<connected, ping_task, pings, clock, explicit, lost, disconnects>>

\* data_received with a chunk of room commands
RoomDataReceived ==
    /\ IoReady
    /\ \E k \in ChunkSizes :
         /\ Len(dispatched) + k <= MaxRoomCmds
         /\ \E data \in FrameSeqs(RoomFrames, k) : data_received(data)
    /\ chunks' = chunks + 1
    /\ dispatched' = dispatched \o NewTasks
    /\ UNCHANGED <<configVars, formatVars, managerVars, flagsobj, calls, groupVars, roomVars, storeVars, sessionVars, events, written,
                   inbound, handled>>

\* What a handler task leaves alone
HandlerFrame ==
    /\ handled' = Handled(Head(readyQ))
    /\ UNCHANGED <<configVars, formatVars, managerVars, flagsobj, calls, groupVars, storeVars, sessionVars, frameVars, transport,
                   last_command, chunks>>

RunB ==
    /\ IsRecv(<<"b">>)
    /\ _recv_b(Head(readyQ).arg, Tail(readyQ))
    /\ HandlerFrame

RunU ==
    /\ IsRecv(<<"u">>)
    /\ _recv_u(Head(readyQ).arg, Tail(readyQ))
    /\ HandlerFrame

RunI ==
    /\ IsRecv(<<"i">>)
    /\ _recv_i(Head(readyQ).arg, Tail(readyQ))
    /\ HandlerFrame

RunInited ==
    /\ IsRecv(<<"inited">>)
    /\ _recv_inited(Tail(readyQ))
    /\ HandlerFrame

RunGotmore ==
    /\ IsRecv(<<"gotmore">>)
    /\ _recv_gotmore(Tail(readyQ))
    /\ HandlerFrame

RunNomore ==
    /\ IsRecv(<<"nomore">>)
    /\ _recv_nomore(Tail(readyQ))
    /\ HandlerFrame

NextRoom ==
    \/ RoomDataReceived
    \/ RunB
    \/ RunU
    \/ RunI
    \/ RunInited
    \/ RunGotmore
    \/ RunNomore

SpecRoom == InitRoomSession /\ [][NextRoom]_vars

(***************************************************************************)
(* Properties of the room session                                          *)
(***************************************************************************)
\* The b commands handled for pnum p, the u commands handled for p that carry
\* an id, and the on_message events raised for p
BodiesFor(p) ==
    SelectSeq(handled, LAMBDA h : h[1] = <<"b">> /\ PostValid(h[2]) /\ h[2][6] = p)
IdsFor(p) ==
    SelectSeq(handled, LAMBDA h : h[1] = <<"u">> /\ Len(h[2]) >= 2 /\ h[2][1] = p)
MessagesFor(p) ==
    SelectSeq(events, LAMBDA e : e.name = "on_message" /\ e.arg.pnum = p)

Matched(p) == Len(BodiesFor(p)) = 1 /\ Len(IdsFor(p)) = 1

C9_ConnectRaisedOnce ==
    EventCount("on_connect") <= 1

\* The on_history_done events, the posts they delivered and the posts of the
\* handled i commands
Batches == SelectSeq(events, LAMBDA e : e.name = "on_history_done")

RECURSIVE Delivered(_)
Delivered(bs) ==
    IF bs = <<>> THEN <<>> ELSE lists[bs[1].arg] \o Delivered(Tail(bs))

RECURSIVE HistoryPosts(_)
HistoryPosts(hs) ==
    IF hs = <<>> THEN <<>>
    ELSE (IF hs[1][1] = <<"i">> /\ PostValid(hs[1][2])
          THEN <<Post_history(hs[1][2])>>
          ELSE <<>>) \o HistoryPosts(Tail(hs))

MaxStream == 5    \* bytes received in one session

Bytes == {NUL, ":", "CR", "u", "xC3", "xA9"}

\* Every byte string of length n
RECURSIVE ByteStrings(_)
ByteStrings(n) ==
    IF n = 0 THEN {<<>>}
    ELSE {<<b>> \o s : b \in Bytes, s \in ByteStrings(n - 1)}

\* data_received with the next bytes of the stream
ByteDataReceived ==
    /\ IoReady
    /\ \E n \in 1..(MaxStream - Len(inbound)) :
         \E data \in ByteStrings(n) :
            /\ data_received(data)
            /\ inbound' = inbound \o data
    /\ chunks' = chunks + 1
    /\ dispatched' = dispatched \o NewTasks
    /\ UNCHANGED <<configVars, formatVars, managerVars, flagsobj, calls, groupVars, roomVars, storeVars, sessionVars, events, written, handled>>

NextFrame ==
    \/ ByteDataReceived
    \/ RunU
    \/ RunDisconnect
    \/ RunLost

SpecFrame == InitRoomSession /\ [][NextFrame]_vars

\* C3: however the stream was cut into chunks, the commands dispatched so
\* far are those one data_received call on the whole stream dispatches, in
\* the same order; the stream fails as a whole exactly if a chunk failed, and
\* otherwise the buffer holds the bytes after the last NUL.
C3_ChunkingInvariant ==
    /\ dispatched = TaskNames(Dispatch(inbound).tasks)
    /\ failed <=> ~Dispatch(inbound).ok
    /\ ~failed => rbuff = Dispatch(inbound).kept

\* One command of a two-byte character, delivered one byte to a chunk
C3_Witness ==
    /\ chunks = 5
    /\ inbound = <<"u", ":", "xC3", "xA9", NUL>>
    /\ dispatched = << <<(<<"u">>), <<(<<"e'">>)>> >> >>
    /\ rbuff = <<>>

\* The chunk a data_received step delivered, and the buffer it parsed
LastChunk == SubSeq(inbound', Len(inbound) + 1, Len(inbound'))
Parsed(buf) ==
    LET commands == SplitOn(buf, NUL)
    IN  [i \in 1..(Len(commands) - 1) |-> ParseCommand(commands[i])]

\* The complete commands of buf that name _recv_u, as <<mnemonic, args>>
CommandsOfU(buf) ==
    LET known == SelectSeq(Parsed(buf), LAMBDA a : a[1] = <<"u">>)
    IN  [i \in DOMAIN known |-> <<known[i][1], Tail(known[i])>>]

\* C24: a data_received call whose commands all decode schedules one handler
\* for each complete command that names _recv_u, in order, and nothing for
\* the commands of any other mnemonic, wherever they stand in the chunk; it
\* raises no event and changes only the receive buffer, the time of the last
\* command and the task queue.
C24_UnknownMnemonicIgnored ==
    [][(inbound' # inbound /\ ~failed')
         => /\ NewTasks = CommandsOfU(rbuff \o LastChunk)
            /\ Len(readyQ') = Len(readyQ) + Len(NewTasks)
            /\ UNCHANGED <<events, written, handled, transport, failed,
                           configVars, formatVars, managerVars, flagsobj, calls, groupVars, roomVars,
                           storeVars, sessionVars>>]_vars

\* One chunk held a command of no mnemonic, then one of an unknown mnemonic,
\* then a u command: only the last was dispatched
C24_Witness ==
    /\ chunks = 1
    /\ inbound = <<NUL, ":", NUL, "u", NUL>>
    /\ dispatched = << <<(<<"u">>), <<>> >> >>
    /\ events = <<>>
    /\ ~failed

\* The complete commands of the stream that decode and name _recv_u
RECURSIVE DecodableCommandsOfU(_)
DecodableCommandsOfU(commands) ==
    IF Len(commands) <= 1 THEN <<>>
    ELSE (IF Decodable(commands[1]) /\ ParseCommand(commands[1])[1] = <<"u">>
          THEN << <<(<<"u">>), Tail(ParseCommand(commands[1]))>> >>
          ELSE <<>>) \o DecodableCommandsOfU(Tail(commands))

\* C25: a command that does not decode is dropped alone: the session stays
\* connected and every other complete command of the stream was dispatched
\* exactly once, in order.
C25_MalformedDroppedAlone ==
    /\ ~failed
    /\ transport # "closed"
    /\ dispatched = DecodableCommandsOfU(SplitOn(inbound, NUL))

(***************************************************************************)
(* History retrieval: SpecHistory.  The connected room session receives    *)
(* history commands while the application calls Group.get_more.            *)
(***************************************************************************)
MaxHistoryCmds == 3    \* history commands received in one session
MaxCalls       == 2    \* Group methods called by the application

Amounts == {20, 50}

\* send_command with arguments after the mnemonic
send_fields(tr, w, cmd, args) ==
    IF tr = "none"
    THEN w
    ELSE Append(w, [cmd |-> cmd, args |-> args, crlf |-> TRUE,
                    open |-> (tr = "open")])

\* A get_more that does not look at _no_more
get_more_ignores_no_more(w, amt) ==
    send_fields(transport, w, "get_more", <<str(amt), str(history_count)>>)

\* Group.get_more
get_more(w, amt) ==
    IF ~no_more
    THEN send_fields(transport, w, "get_more", <<str(amt), str(history_count)>>)
    ELSE w

HistoryFrames ==
    {PostFrame("i", "50", "d8", BodyA), InitedFrame, GotmoreFrame, NomoreFrame}

\* data_received with a chunk of history commands
HistoryDataReceived ==
    /\ IoReady
    /\ \E k \in ChunkSizes :
         /\ Len(dispatched) + k <= MaxHistoryCmds
         /\ \E data \in FrameSeqs(HistoryFrames, k) : data_received(data)
    /\ chunks' = chunks + 1
    /\ dispatched' = dispatched \o NewTasks
    /\ UNCHANGED <<configVars, formatVars, managerVars, flagsobj, calls, groupVars, roomVars, storeVars, sessionVars, events,
                   written, inbound, handled>>

\* The application calls Group.get_more on the group it was handed
AppGetMore ==
    /\ transport # "none"
    /\ Len(calls) < MaxCalls
    /\ \E amt \in Amounts :
         /\ written' = get_more(written, amt)
         /\ calls' = Append(calls, <<"get_more", amt>>)
    /\ UNCHANGED <<configVars, formatVars, managerVars, flagsobj, groupVars, roomVars, storeVars, sessionVars, frameVars,
                   transport, last_command, readyQ, events, handled, chunks>>

NextHistory ==
    \/ HistoryDataReceived
    \/ AppGetMore
    \/ RunI
    \/ RunInited
    \/ RunGotmore
    \/ RunNomore

SpecHistory == InitRoomSession /\ [][NextHistory]_vars

\* gotmore commands handled so far; whether nomore has been handled
GotmoreHandled == Len(SelectSeq(handled, LAMBDA h : h[1] = <<"gotmore">>))
NomoreHandled  == \E i \in DOMAIN handled : handled[i][1] = <<"nomore">>

\* This step is a call of Group.get_more
GetMoreStep == calls' # calls /\ calls'[Len(calls')][1] = "get_more"

GetMoreWritten == SelectSeq(written, LAMBDA f : f.cmd = "get_more")

\* C11: the history counter always equals the number of gotmore commands
\* handled so far (nothing else moves it: not the flush on inited, not get_more,
\* not nomore), and a get_more request carries the counter's current value as
\* its second argument.
C11_CounterCountsBatches ==
    /\ [](history_count = GotmoreHandled)
    /\ [][GetMoreStep /\ written' # written
            => written'[Len(written')].args[2] = str(history_count)]_vars

\* inited and two gotmore handled, and a request sent between the two batches
C11_Witness ==
    /\ ready
    /\ history_count = 2
    /\ \E i \in DOMAIN written :
         written[i].cmd = "get_more" /\ written[i].args[2] = <<"1">>

\* C12: once nomore has been handled a get_more call writes nothing and changes
\* no state of the session; before that each call writes exactly one get_more
\* command.
C12_NoMoreStopsRequests ==
    [][GetMoreStep =>
         IF NomoreHandled
         THEN UNCHANGED <<configVars, formatVars, managerVars, flagsobj, groupVars, roomVars, storeVars, sessionVars,
                          frameVars, transport, last_command, readyQ, events,
                          written>>
         ELSE /\ Len(written') = Len(written) + 1
              /\ written'[Len(written')].cmd = "get_more"
              /\ SubSeq(written', 1, Len(written)) = written]_vars

\* One call before nomore was handled and one after it: one request written
C12_Witness ==
    /\ NomoreHandled
    /\ Len(calls) = 2
    /\ Len(GetMoreWritten) = 1

(***************************************************************************)
(* The roster: SpecRoster.  The connected room session receives roster     *)
(* snapshots, participant events and moderator lists.                      *)
(***************************************************************************)
MaxRosterCmds == 3    \* roster commands received in one session

\* participant:<flag>:<client>:<session>:<name>:<temporary name>:<ip>:<time>
ParticipantFrame(flag, unid, name, time) ==
    <<"participant", ":", flag, ":", unid, ":", "s", ":", name, ":", "None", ":",
      "ip", ":", time, "CR", "LF", NUL>>

\* One person of a snapshot: <client>:<time>:<session>:<name>:<temporary name>:<ip>
Person(unid, time, name) ==
    <<unid, ":", time, ":", "s", ":", name, ":", "None", ":", "ip">>

\* gparticipants:<count>:<person>;<person>
GParticipantsFrame(count, people) ==
    <<"gparticipants", ":", count, ":">> \o Join(people, ";") \o <<"CR", "LF", NUL>>

\* mods:<name>,<flags>:<name>,<flags>
ModsFrame(items) == <<"mods", ":">> \o Join(items, ":") \o <<"CR", "LF", NUL>>

RosterFrames ==
    {ParticipantFrame("1", "50", "al", "100"), ParticipantFrame("1", "60", "Al", "200"),
     ParticipantFrame("0", "50", "al", "100"), ParticipantFrame("0", "60", "al", "100"),
     ParticipantFrame("1", "50", "None", "100"), ParticipantFrame("0", "50", "None", "100"),
     GParticipantsFrame("2", <<Person("50", "100", "None"), Person("60", "200", "al")>>),
     GParticipantsFrame("2", <<Person("50", "100", "al"), Person("60", "200", "Al")>>),
     ModsFrame(<< <<"al", ",", "8">> >>), ModsFrame(<< <<"bob", ",", "8">> >>),
     ModsFrame(<< <<"Al", ",", "2">>, <<"bob", ",", "8">> >>)}

\* data_received with a chunk of roster commands
RosterDataReceived ==
    /\ IoReady
    /\ \E k \in ChunkSizes :
         /\ Len(dispatched) + k <= MaxRosterCmds
         /\ \E data \in FrameSeqs(RosterFrames, k) : data_received(data)
    /\ chunks' = chunks + 1
    /\ dispatched' = dispatched \o NewTasks
    /\ UNCHANGED <<configVars, formatVars, managerVars, flagsobj, calls, groupVars, roomVars, storeVars, sessionVars,
                   events, written, inbound, handled>>

\* What a roster handler task leaves alone
RosterFrame ==
    /\ handled' = Handled(Head(readyQ))
    /\ UNCHANGED <<configVars, formatVars, managerVars, flagsobj, calls, roomVars, storeVars, sessionVars, frameVars,
                   transport, last_command, chunks, written, bans, banned>>

RunGparticipants ==
    /\ IsRecv(<<"gparticipants">>)
    /\ _recv_gparticipants(Head(readyQ).arg, Tail(readyQ))
    /\ RosterFrame

RunParticipant ==
    /\ IsRecv(<<"participant">>)
    /\ _recv_participant(Head(readyQ).arg, Tail(readyQ))
    /\ RosterFrame

RunMods ==
    /\ IsRecv(<<"mods">>)
    /\ _recv_mods(Head(readyQ).arg, Tail(readyQ))
    /\ RosterFrame

NextRoster ==
    \/ RosterDataReceived
    \/ RunGparticipants
    \/ RunParticipant
    \/ RunMods

SpecRoster == InitRoomSession /\ [][NextRoster]_vars

(***************************************************************************)
(* Properties of the roster                                                *)
(***************************************************************************)
\* The Users a set holds (None is not a User)
UsersIn(S) == S \ {NoneRef}

\* C13: the Users of _users and _mods together never hold two distinct User
\* objects whose names are equal ignoring case.
C13_OneMemberPerName ==
    \A r, t \in UsersIn(users \cup mods) :
        lower(members[r].name) = lower(members[t].name) => r = t

\* One User, named as "al" and as "Al" by two joins and by a moderator list,
\* is the only object made and sits in both sets with both clients
C13_Witness ==
    /\ Len(members) = 1
    /\ users = {1}
    /\ mods = {1}
    /\ DOMAIN members[1].clients = {50, 60}

\* The last command handled, as <<mnemonic, args>>
LastHandled == handled[Len(handled)]

\* The persons a gparticipants command lists, each as its fields
Listed(args) ==
    LET people == SplitOn(Join(SubSeq(args, 2, Len(args)), ":"), ";")
    IN  IF people[1] = <<>> THEN {}
        ELSE {SplitOn(people[i], ":") : i \in DOMAIN people}

\* The names listed that are not the anonymous placeholder, in lower case,
\* and the clients listed for a name
ListedNames(args) == {lower(p[4]) : p \in {p \in Listed(args) : p[4] # <<"None">>}}
ListedClients(args, name) ==
    {AtomValue[p[1][1]] : p \in {p \in Listed(args) : lower(p[4]) = name}}

\* C14: when a gparticipants command has just been handled, _users holds no
\* placeholder and exactly one User per listed name that is not 'None', and
\* each of them has exactly the clients the snapshot lists for it.
C14_SnapshotReplacesRoster ==
    (handled # <<>> /\ LastHandled[1] = <<"gparticipants">>) =>
        LET args == LastHandled[2] IN
        /\ NoneRef \notin users
        /\ {lower(members[r].name) : r \in UsersIn(users)} = ListedNames(args)
        /\ \A r \in UsersIn(users) :
             DOMAIN members[r].clients = ListedClients(args, lower(members[r].name))

\* This step runs the handler of a participant command
ParticipantStep ==
    /\ Len(handled') = Len(handled) + 1
    /\ handled'[Len(handled')][1] = <<"participant">>

\* The arguments of the participant command this step handles
StepArgs == handled'[Len(handled')][2]

\* C15: a participant command with the name 'None' and flag 0 or 1 leaves the
\* Users untouched and raises one event with "anon": on_member_join for
\* flag 1, on_member_leave for flag 0.
C15_AnonPassedThrough ==
    [][(ParticipantStep /\ StepArgs[4] = <<"None">>
                        /\ StepArgs[1] \in {<<"0">>, <<"1">>})
         => /\ UNCHANGED <<members, users, mods>>
            /\ events' = _call_event(events,
                            IF StepArgs[1] = <<"1">> THEN "on_member_join"
                            ELSE "on_member_leave",
                            Text(<<"anon">>))]_vars

\* The Users that have the name, moderators and regular members alike
Named(name) == {r \in UsersIn(users \cup mods) : eq_name(members, r, name)}

\* Group.users: the Users present
Present == {r \in UsersIn(users) : joined(members, r)}

\* C16: a participant command with flag 0 that names a User only removes the
\* named client from that User: the User stays in the sets it was in, no other
\* client and no other User changes, on_member_leave is raised with the User,
\* and the User is present exactly as long as a client is left.
C16_LeaveRemovesOneClient ==
    [][(ParticipantStep /\ StepArgs[1] = <<"0">> /\ Named(StepArgs[4]) # {})
         => /\ UNCHANGED <<users, mods>>
            /\ Len(members') = Len(members)
            /\ \A r \in DOMAIN members :
                 members'[r] =
                   IF r \in Named(StepArgs[4])
                   THEN [members[r] EXCEPT
                           !.clients = Del(@, AtomValue[StepArgs[2][1]])]
                   ELSE members[r]
            /\ \A r \in Named(StepArgs[4]) :
                 events' = _call_event(events, "on_member_leave", Member(r))
            /\ \A r \in UsersIn(users) :
                 (r \in Present') <=> DOMAIN members'[r].clients # {}]_vars

\* A User listed with two clients has lost one and then the other: it is
\* still in _users and no longer present
C16_Witness ==
    /\ Len(handled) = 3
    /\ handled[1][1] = <<"gparticipants">>
    /\ handled[2][2][1] = <<"0">> /\ handled[2][2][2] = <<"50">>
    /\ handled[3][2][1] = <<"0">> /\ handled[3][2][2] = <<"60">>
    /\ users = {1}
    /\ DOMAIN members[1].clients = {}
    /\ Present = {}

\* This step runs the handler of a mods command
ModsStep ==
    /\ Len(handled') = Len(handled) + 1
    /\ handled'[Len(handled')][1] = <<"mods">>

\* The names a mods command announces and the names of a set of Users, in
\* lower case
Announced(args) == {lower(SplitOn(args[i], ",")[1]) : i \in DOMAIN args}
NamesOf(ms, S) == {lower(ms[r].name) : r \in UsersIn(S)}

\* The events a step raised
NewEvents == SubSeq(events', Len(events) + 1, Len(events'))

\* How many of the events es have the name and carry a User called n
Raised(es, name, n) ==
    Cardinality({i \in DOMAIN es : /\ es[i].name = name
                                   /\ lower(members'[es[i].arg.user].name) = n})

\* C18: a mods command announcing the names N to a session whose moderators
\* are O raises one on_mod_add for each name of N \ O, one on_mod_remove for
\* each name of O \ N and nothing else for a moderator, then one on_mod_change
\* as the last event; after it the names of _mods are N.
C18_ModsDiffedAgainstPrevious ==
    [][ModsStep =>
         LET N == Announced(handled'[Len(handled')][2])
             O == NamesOf(members, mods)
             es == NewEvents
         IN  /\ Len(es) = Cardinality(N \ O) + Cardinality(O \ N) + 1
             /\ es[Len(es)].name = "on_mod_change"
             /\ \A i \in 1..(Len(es) - 1) : es[i].name \in {"on_mod_add", "on_mod_remove"}
             /\ \A n \in N \ O : Raised(SubSeq(es, 1, Len(es) - 1), "on_mod_add", n) = 1
             /\ \A n \in O \ N : Raised(SubSeq(es, 1, Len(es) - 1), "on_mod_remove", n) = 1
             /\ NamesOf(members', mods') = N]_vars

\* A list naming bob alone has replaced the moderator al: one on_mod_add
\* each, one on_mod_remove, and on_mod_change after each list
C18_Witness ==
    /\ Len(handled) = 2
    /\ handled[2][1] = <<"mods">>
    /\ NamesOf(members, mods) = {<<"bob">>}
    /\ [i \in DOMAIN events |-> events[i].name]
         \in {<<"on_mod_add", "on_mod_change", "on_mod_add", "on_mod_remove",
                "on_mod_change">>}

(***************************************************************************)
(* Moderation: SpecMod.  The room session receives ok commands, which name *)
(* the owner and the moderators, and the application calls the moderation  *)
(* methods of Group.                                                       *)
(***************************************************************************)
MaxModCmds  == 2    \* ok commands received in one session
MaxModCalls == 1    \* moderation methods called by the application

\* Group.username
Identity ==
    IF aid # None THEN <<"!anon">>
    ELSE IF password THEN login
    ELSE <<"#">> \o login

\* int & int
RECURSIVE BitAnd(_, _)
BitAnd(a, b) ==
    IF a = 0 \/ b = 0 THEN 0
    ELSE (a % 2) * (b % 2) + 2 * BitAnd(a \div 2, b \div 2)

\* The number a ModFlags object was made from
FlagsValue(f) == IF f.int THEN f.v ELSE AtomValue[f.v[1]]

\* The handled commands that announce moderators, and the flags the last of
\* them announces for the name n (lower case)
ModLists == {i \in DOMAIN handled : handled[i][1] = <<"mods">>}
LastAnnouncedFlags(n) ==
    LET args  == handled[CHOOSE i \in ModLists : \A j \in ModLists : j <= i][2]
        items == {i \in DOMAIN args : lower(SplitOn(args[i], ",")[1]) = n}
    IN  {AtomValue[SplitOn(args[i], ",")[2][1]] : i \in items}

\* C30: a User of the roster that is not a moderator has moderation flags 0,
\* also after a mods command that demoted it; a moderator has the flags the
\* last mods command announced for its name.
C30_FlagsFollowModeratorSet ==
    /\ \A r \in UsersIn(users) \ mods : FlagsValue(members[r].flags) = 0
    /\ \A r \in UsersIn(mods) :
          ModLists # {} =>
             LastAnnouncedFlags(lower(members[r].name)) = {FlagsValue(members[r].flags)}

\* A has_permission that grants everything
has_permission_always(flags) == "yes"

\* Group.has_permission: "yes" and "no" for True and False.  For a moderator
\* it evaluates mod.mod_flags & flags, and Flags defines no __and__: TypeError.
has_permission(flags) ==
    IF Identity = owner THEN "yes"
    ELSE IF \E m \in mods : members[m].name = Identity THEN "raise"
    ELSE "no"

\* The flags each moderation method asks has_permission for
Required ==
    [add_mod |-> 2, remove_mod |-> 2, disable_content |-> 8, ban_words |-> 8,
     unban_words |-> 8, disable_anons |-> 16, set_rate_limit |-> 16, clearall |-> 32,
     disable_usercount |-> 32, disable_channels |-> 32, request_banlist |-> 192,
     delete |-> 192, clear_user |-> 192, ban |-> 192, unban |-> 192,
     get_moderation_log |-> 256, auto_moderation |-> 512, get_announcement |-> 1024,
     set_announcement |-> 1024, set_input |-> 32768, display_badge |-> 0]

ModOps == DOMAIN Required

\* The methods whose send_command gets an int among its arguments (a flag
\* constant, GroupFlags.update's masks, a default duration or count):
\* ':'.join raises TypeError and nothing is written
SendsInts ==
    {"add_mod", "disable_content", "disable_anons", "set_rate_limit",
     "disable_usercount", "disable_channels", "get_moderation_log",
     "auto_moderation", "set_announcement", "set_input", "display_badge"}

\* The command each of the other methods sends
Sends ==
    [remove_mod |-> "removemod", ban_words |-> "setbannedwords",
     unban_words |-> "setbannedwords", clearall |-> "clearall",
     request_banlist |-> "blocklist", delete |-> "delmsg",
     clear_user |-> "delallmsg", ban |-> "block", unban |-> "removeblock",
     get_announcement |-> "getannouncement"]

\* The body of a moderation method, run when has_permission returned True:
\* the transport output after it.  remove_mod returns early for a User that
\* is not a moderator; unban(name) with no Ban of that name reads .unid of a
\* str and raises.
body_written(op, r, w) ==
    IF op \in SendsInts THEN w
    ELSE IF op = "remove_mod" /\ ~\E m \in mods : m = r \/ eq_user(members, m, r) THEN w
    ELSE IF op = "unban" /\ ~\E i \in DOMAIN bans : bans[i].user = <<"al">> THEN w
    ELSE send_command(transport, w, Sends[op], FALSE)

\* ban_words("w") extends _banned_parts; unban_words("w") removes the first "w"
body_banned(op) ==
    IF op = "ban_words" THEN <<Append(banned[1], "w"), banned[2]>>
    ELSE IF op = "unban_words" /\ banned[1] # <<>>
    THEN <<Tail(banned[1]), banned[2]>>
    ELSE banned

\* Group.request_banlist
request_banlist(w) ==
    IF has_permission(Required["request_banlist"]) = "yes"
    THEN body_written("request_banlist", NoneRef, w)
    ELSE w

\* ok:<owner>:<session>:<flag>:<name>:<time>:<ip>:<name>,<flags>;<name>,<flags>
OkFrameFor(ownr, flag, modlist) ==
    <<"ok", ":", ownr, ":", "1234", ":", flag, ":", "a3", ":", "a4", ":", "a5", ":">>
        \o modlist \o <<"CR", "LF", NUL>>

ModFrames ==
    {OkFrameFor("al", "M", <<"bob", ",", "8">>),
     OkFrameFor("bob", "M", <<"al", ",", "8">>),
     OkFrameFor("bob", "C", <<"al", ",", "8">>)}

\* The room session of any identity: anonymous, a temporary name, a login
InitModSession ==
    /\ username \in BOOLEAN
    /\ password \in BOOLEAN
    /\ password => username
    /\ login = IF username THEN <<"al">> ELSE <<>>
    /\ ConnectedSession

\* data_received with a chunk of ok commands
ModDataReceived ==
    /\ IoReady
    /\ \E k \in ChunkSizes :
         /\ Len(dispatched) + k <= MaxModCmds
         /\ \E data \in FrameSeqs(ModFrames, k) : data_received(data)
    /\ chunks' = chunks + 1
    /\ dispatched' = dispatched \o NewTasks
    /\ UNCHANGED <<configVars, formatVars, managerVars, flagsobj, calls, groupVars, roomVars, storeVars, sessionVars,
                   events, written, inbound, handled>>

\* The application calls a moderation method of the group it was handed
AppModerate ==
    /\ transport # "none"
    /\ Len(calls) < MaxModCalls
    /\ \E op \in ModOps :
         \E r \in (IF op = "remove_mod" THEN DOMAIN members ELSE {NoneRef}) :
           /\ calls' = Append(calls, <<op, r>>)
           /\ IF has_permission(Required[op]) = "yes"
              THEN /\ written' = body_written(op, r, written)
                   /\ banned' = body_banned(op)
              ELSE UNCHANGED <<written, banned>>
    /\ UNCHANGED <<configVars, formatVars, managerVars, flagsobj, members, users, mods, bans, roomVars, storeVars,
                   sessionVars, frameVars, transport, last_command, readyQ, events,
                   handled, chunks>>

NextMod ==
    \/ ModDataReceived
    \/ RunOk
    \/ AppModerate

SpecMod == InitModSession /\ [][NextMod]_vars

\* This step is a call of a moderation method
ModerateStep == calls' # calls /\ calls'[Len(calls')][1] \in ModOps
StepOp == calls'[Len(calls')][1]

\* The identity is the owner, or a moderator whose flags have a bit of `flags`
Permitted(flags) ==
    \/ Identity = owner
    \/ \E m \in mods : /\ members[m].name = Identity
                       /\ BitAnd(FlagsValue(members[m].flags), flags) # 0

\* C17: a call of a moderation method writes a command or changes the state of
\* the session only if the identity is the owner or a moderator with one of
\* the flags the method requires; for every other identity the call writes
\* nothing and changes nothing.
C17_ModerationNeedsPermission ==
    [][(ModerateStep /\ ~Permitted(Required[StepOp]))
         => UNCHANGED <<configVars, formatVars, managerVars, flagsobj, groupVars, roomVars, storeVars, sessionVars,
                        frameVars, transport, last_command, readyQ, events,
                        written>>]_vars

\* A moderator whose flags (8) lack the bit clearall requires (32) has called
\* clearall in the room of another owner, and nothing was written for it
C17_Witness ==
    /\ owner = <<"bob">>
    /\ Identity = <<"al">>
    /\ \E m \in mods : members[m].name = <<"al">>
    /\ Len(calls) = 1
    /\ calls[1][1] = "clearall"
    /\ \A i \in DOMAIN written : written[i].cmd # "clearall"

(***************************************************************************)
(* Bans: SpecBans.  A logged-in room session of either implementation      *)
(* receives ok, blocklist and blocked commands.                            *)
(***************************************************************************)
MaxBanCmds == 2    \* commands received in one session

\* The attribute Group.__init__ keeps the bans in (group.py:444, ch.py:726)
BansAttr == IF impl = "pkg" THEN "_bans" ELSE "_banlist"

\* self._storage._banlist is an attribute; otherwise reading it raises
\* AttributeError
HasBanlist == BansAttr = "_banlist"

\* Ban.__init__ of the package; ch.py keeps the same five values in a tuple
Ban(user, ip, unid, mod, time) ==
    [user |-> user, ip |-> ip, unid |-> unid, mod |-> mod, time |-> time]

\* The moderator responsible: the User of _mods with the name, else the name
\* in lower case
BanSource(name) ==
    IF \E m \in mods : lower(members[m].name) = lower(name)
    THEN Member(CHOOSE m \in mods : lower(members[m].name) = lower(name))
    ELSE Text(lower(name))

\* The for loop of group.GroupProtocol._recv_blocklist
RECURSIVE blocklist_bans(_)
blocklist_bans(sections) ==
    IF sections = <<>> THEN <<>>
    ELSE LET params == SplitOn(Head(sections), ":")
         IN  (IF Len(params) # 5 THEN <<>>
              ELSE <<Ban(params[3], params[2], params[1], BanSource(params[5]),
                         AtomValue[params[4][1]])>>)
                 \o blocklist_bans(Tail(sections))

\* The for loop of ch.GroupProtocol._recv_blocklist
RECURSIVE ch_blocklist_bans(_)
ch_blocklist_bans(sections) ==
    IF sections = <<>> THEN <<>>
    ELSE LET params == SplitOn(Head(sections), ":")
         IN  (IF Len(params) # 5 \/ params[3] = <<>> THEN <<>>
              ELSE <<Ban(params[3], params[2], params[1], Text(params[5]),
                         AtomValue[params[4][1]])>>)
                 \o ch_blocklist_bans(Tail(sections))

\* GroupProtocol._recv_blocklist (group.py and ch.py): its first statement
\* reads self._storage._banlist
_recv_blocklist(args, q) ==
    LET sections == SplitOn(Join(args, ":"), ";")
    IN  /\ readyQ' = q
        /\ IF ~HasBanlist
           THEN UNCHANGED <<bans, events>>
           ELSE /\ bans' = IF impl = "pkg" THEN blocklist_bans(sections)
                           ELSE ch_blocklist_bans(sections)
                /\ events' = _call_event(events, "on_banlist_update", "")
        /\ UNCHANGED written

\* group.GroupProtocol._recv_blocked: float(args[4]) raises on a field that
\* is not a number
pkg_recv_blocked(args, q) ==
    /\ readyQ' = q
    /\ IF Len(args) < 5 \/ ~IsNumber(args[5])
       THEN UNCHANGED <<events, written>>
       ELSE /\ events' = _call_event(events, "on_ban",
                            Ban(args[3], args[2], args[1], BanSource(args[4]),
                                AtomValue[args[5][1]]))
            /\ written' = request_banlist(written)
    /\ UNCHANGED bans

\* ch.GroupProtocol.request_banlist
ch_request_banlist(w) ==
    send_fields(transport, w, "blocklist", <<"block", "", "next", "500">>)

\* ch.GroupProtocol._recv_blocked: float(args[3]) raises on a field that is
\* not a number
ch_recv_blocked(args, q) ==
    /\ readyQ' = q
    /\ IF args[3] = <<>> \/ ~IsNumber(args[4])
       THEN UNCHANGED <<bans, events, written>>
       ELSE /\ bans' = Append(bans, Ban(args[3], args[2], args[1], Text(args[4]),
                                        AtomValue[args[4][1]]))
            /\ events' = _call_event(events, "on_ban", [user |-> args[4],
                                                        target |-> args[3]])
            /\ written' = ch_request_banlist(written)

\* One record of a ban list: <client>:<ip>:<target>:<time>:<moderator>
BanRecord(unid, target, time, src) ==
    <<unid, ":", "ip", ":">> \o target \o <<":", time, ":", src>>

\* blocklist:<record>;<record>
BlocklistFrame(records) ==
    <<"blocklist", ":">> \o Join(records, ";") \o <<"CR", "LF", NUL>>

\* blocked:<client>:<ip>:<target>:<a4>:<a5>; group.py reads the moderator
\* from a4 and the time from a5, ch.py the time (and the moderator) from a4
BlockedFrame(unid, target, a4, a5) ==
    <<"blocked", ":", unid, ":", "ip", ":">> \o target \o <<":", a4, ":", a5,
      "CR", "LF", NUL>>

BanFrames ==
    {OkFrameFor("al", "M", <<"bob", ",", "8">>),
     BlocklistFrame(<<BanRecord("d1", <<"al">>, "100", "bob"),
                      BanRecord("d2", <<>>, "200", "bob"),
                      <<"d3", ":", "ip", ":", "cy">> >>),
     BlocklistFrame(<<BanRecord("d2", <<"cy">>, "200", "Bob")>>),
     BlockedFrame("d1", <<"al">>, "bob", "100"),
     BlockedFrame("d1", <<>>, "bob", "100"),
     BlockedFrame("d1", <<"al">>, "100", "bob")}

\* A logged-in room session before its connection is made
InitBanSession ==
    /\ impl \in {"pkg", "ch"}
    /\ kind = "group"
    /\ username = TRUE
    /\ password = TRUE
    /\ login = <<"al">>
    /\ InitSession
    /\ InitRoom

\* data_received with a chunk of ban commands
BanDataReceived ==
    /\ IoReady
    /\ \E k \in ChunkSizes :
         /\ Len(dispatched) + k <= MaxBanCmds
         /\ \E data \in FrameSeqs(BanFrames, k) : data_received(data)
    /\ chunks' = chunks + 1
    /\ dispatched' = dispatched \o NewTasks
    /\ UNCHANGED <<configVars, formatVars, managerVars, flagsobj, calls, groupVars, roomVars, storeVars, sessionVars,
                   events, written, inbound, handled>>

\* What a ban handler task leaves alone
BanFrame ==
    /\ handled' = Handled(Head(readyQ))
    /\ UNCHANGED <<configVars, formatVars, managerVars, flagsobj, calls, roomVars, storeVars, sessionVars, frameVars,
                   transport, last_command, chunks, members, users, mods, banned>>

RunBlocklist ==
    /\ IsRecv(<<"blocklist">>)
    /\ _recv_blocklist(Head(readyQ).arg, Tail(readyQ))
    /\ BanFrame

RunBlocked ==
    /\ IsRecv(<<"blocked">>)
    /\ IF impl = "pkg"
       THEN pkg_recv_blocked(Head(readyQ).arg, Tail(readyQ))
       ELSE ch_recv_blocked(Head(readyQ).arg, Tail(readyQ))
    /\ BanFrame

NextBans ==
    \/ ConnectionMade
    \/ RunPing
    \/ BanDataReceived
    \/ RunOk
    \/ RunBlocklist
    \/ RunBlocked

SpecBans == InitBanSession /\ [][NextBans]_vars

\* The records of a blocklist command that have five fields and a target
RECURSIVE Records(_)
Records(sections) ==
    IF sections = <<>> THEN <<>>
    ELSE LET params == SplitOn(Head(sections), ":")
         IN  (IF Len(params) = 5 /\ params[3] # <<>> THEN <<params>> ELSE <<>>)
                 \o Records(Tail(sections))

\* C19: when a blocklist command has just been handled, the ban list holds
\* one Ban for each of its records that has five fields and a target that is
\* not empty, in the order of the command, and nothing else.
C19_BlocklistReplacesBans ==
    (handled # <<>> /\ LastHandled[1] = <<"blocklist">>) =>
        LET recs == Records(SplitOn(Join(LastHandled[2], ":"), ";"))
        IN  /\ Len(bans) = Len(recs)
            /\ \A i \in DOMAIN recs :
                 /\ bans[i].unid = recs[i][1]
                 /\ bans[i].ip = recs[i][2]
                 /\ bans[i].user = recs[i][3]
                 /\ bans[i].time = AtomValue[recs[i][4][1]]

\* This step runs the handler of a blocked command
BlockedStep ==
    /\ Len(handled') = Len(handled) + 1
    /\ handled'[Len(handled')][1] = <<"blocked">>

\* C20: a blocked command with an empty target leaves the ban list as it was
\* and raises no on_ban; one with a target appends one Ban for that target
\* and raises exactly one on_ban.
C20_BlockedAppendsOneBan ==
    [][BlockedStep =>
         LET args == handled'[Len(handled')][2]
             bans_raised == SelectSeq(NewEvents, LAMBDA e : e.name = "on_ban")
         IN  IF args[3] = <<>>
             THEN bans' = bans /\ bans_raised = <<>>
             ELSE /\ Len(bans') = Len(bans) + 1
                  /\ SubSeq(bans', 1, Len(bans)) = bans
                  /\ bans'[Len(bans')].user = args[3]
                  /\ Len(bans_raised) = 1]_vars

(***************************************************************************)
(* generate.py: SpecGenerate.  aid and reverse_aid are applied, one after   *)
(* the other, to every 4-digit str and to the session ids of the model.    *)
(***************************************************************************)
\* The 4-digit strs: what anon_ncolor returns and what set_anon stores
Seeds == {<<a, b, c, d>> : a \in Range(Digits), b \in Range(Digits),
                           c \in Range(Digits), d \in Range(Digits)}

\* The session ids of 8 characters and more
GroupIds == {<<a>> : a \in {x \in DOMAIN IdDigits : Len(IdDigits[x]) >= 8}}

\* An anonymous session holding either a name color or an anonymous id
InitGenerate ==
    /\ impl = "pkg"
    /\ kind = "group"
    /\ username = FALSE
    /\ password = FALSE
    /\ login = <<>>
    /\ uid \in GroupIds
    /\ \/ n_color \in Seeds /\ aid = None
       \/ aid \in Seeds /\ n_color = None
    /\ NewSession
    /\ flagsobj = None
    /\ InitRoom

\* aid = generate.aid(n_color, uid), after at most one reverse_aid
CallAid ==
    /\ n_color # None
    /\ calls = <<>> \/ (Len(calls) = 1 /\ calls[1][1] = "reverse_aid")
    /\ aid' = generate_aid(n_color, Chars(uid))
    /\ calls' = Append(calls, <<"aid", n_color>>)
    /\ UNCHANGED <<configVars, formatVars, managerVars, flagsobj, groupVars, roomVars, sessionVars, frameVars,
                   transport, last_command, readyQ, events, written, handled, chunks,
                   owner, n_color, uid>>

\* n_color = generate.reverse_aid(aid, uid), after at most one aid
CallReverseAid ==
    /\ aid # None
    /\ calls = <<>> \/ (Len(calls) = 1 /\ calls[1][1] = "aid")
    /\ n_color' = reverse_aid(aid, Chars(uid))
    /\ calls' = Append(calls, <<"reverse_aid", aid>>)
    /\ UNCHANGED <<configVars, formatVars, managerVars, flagsobj, groupVars, roomVars, sessionVars, frameVars,
                   transport, last_command, readyQ, events, written, handled, chunks,
                   owner, aid, uid>>

NextGenerate ==
    \/ CallAid
    \/ CallReverseAid

SpecGenerate == InitGenerate /\ [][NextGenerate]_vars

\* C22: reversing the anonymous id generated from a 4-digit seed and a
\* session id of 8 characters or more gives the seed back, and generating
\* from the reversal of a 4-digit code gives the code back.
C22_ReverseInvertsAid ==
    /\ (Len(calls) = 2 /\ calls[1][1] = "aid") => n_color = calls[1][2]
    /\ (Len(calls) = 2 /\ calls[1][1] = "reverse_aid") => aid = calls[1][2]

\* Both round trips were made, from a seed and a session id whose sum carries
C22_Witness ==
    /\ Len(calls) = 2
    /\ calls[1] = <<"aid", <<"9", "8", "7", "6">> >>
    /\ uid = <<"0000567800000000">>
    /\ aid = <<"4", "4", "4", "4">>
    /\ n_color = <<"9", "8", "7", "6">>

(***************************************************************************)
(* generate.aid on any seed: SpecAid.  The seed is the name color of a     *)
(* message tag or of the session: digits, hex letters and dots, of any     *)
(* length up to MaxSeedLen.                                                *)
(***************************************************************************)
MaxSeedLen == 4    \* characters of a seed

SeedChars == {"1", "9", "A", "."}

\* Every seed of exactly n characters
RECURSIVE SeedsOfLen(_)
SeedsOfLen(n) ==
    IF n = 0 THEN {<<>>}
    ELSE {<<c>> \o t : c \in SeedChars, t \in SeedsOfLen(n - 1)}

AidSeeds == UNION {SeedsOfLen(n) : n \in 0..MaxSeedLen}

InitAid ==
    /\ impl = "pkg"
    /\ kind = "group"
    /\ username = FALSE
    /\ password = FALSE
    /\ login = <<>>
    /\ uid \in GroupIds
    /\ n_color \in AidSeeds
    /\ aid = None
    /\ flagsobj = None
    /\ NewSession
    /\ InitRoom

NextAid == CallAid

SpecAid == InitAid /\ [][NextAid]_vars

\* The digits the claim adds: the last four characters of a purely numeric
\* seed, 3452 for any other seed
ClaimedSeed(seed) ==
    IF IntAble(seed) THEN last4(seed) ELSE <<"3", "4", "5", "2">>

\* C31: aid(seed, id) has exactly four decimal digits; digit i is
\* (s_i + id[4+i]) mod 10, where s is the last four characters of a purely
\* numeric seed and 3452 for every other seed.
C31_AidHasFourDigits ==
    calls # <<>> =>
       LET s == ClaimedSeed(calls[1][2])
           v == id_4_8(Chars(uid))
       IN  /\ Len(aid) = 4
           /\ Len(s) = 4
           /\ \A i \in 1..4 :
                 aid[i] = Digits[((int_digit(s[i]) + int_digit(v[i])) % 10) + 1]

(***************************************************************************)
(* The anonymous handshake: SpecAnon.  A room session of the package with  *)
(* no username and no password; the application may call set_anon, as      *)
(* Manager.join_group does for a username of the form anonNNNN.            *)
(***************************************************************************)
MaxAnonCmds  == 4    \* commands received in one session
MaxAnonCalls == 1    \* set_anon calls made before the connection

\* The numbers get_anon returns in the model
AnonNumbers == {7, 9876}

\* str.zfill(4)
zfill4(s) == IF Len(s) >= 4 THEN s ELSE [i \in 1..(4 - Len(s)) |-> "0"] \o s

\* Group.set_anon: once an ok was received it reads self._aid[4:8], which is
\* empty for a 4-digit id and raises TypeError for None
set_anon(id_number) ==
    IF owner # None
    THEN /\ n_color' = IF aid = None THEN n_color ELSE reverse_aid(str(id_number), aid)
         /\ UNCHANGED aid
    ELSE /\ aid' = zfill4(str(id_number % 10000))
         /\ UNCHANGED n_color

\* ok:<owner>:<session id>:<flag>:<name>:<time>:<ip>:<moderators>
AnonOkFrame(sid, flag) ==
    <<"ok", ":", "bob", ":", sid, ":", flag, ":", "a3", ":", "a4", ":", "a5", ":",
      "CR", "LF", NUL>>

AnonFrames ==
    {AnonOkFrame("0000567800000000", "C"), AnonOkFrame("1234999912345678", "C"),
     InitedFrame, PostFrame("b", "100", "p1", BodyA), UFrame("p1", "d1")}

\* An anonymous room session before its connection is made
InitAnonSession ==
    /\ impl = "pkg"
    /\ kind = "group"
    /\ username = FALSE
    /\ password = FALSE
    /\ login = <<>>
    /\ InitSession
    /\ InitRoom

\* data_received with a chunk of handshake and message commands
AnonDataReceived ==
    /\ IoReady
    /\ \E k \in ChunkSizes :
         /\ Len(dispatched) + k <= MaxAnonCmds
         /\ \E data \in FrameSeqs(AnonFrames, k) : data_received(data)
    /\ chunks' = chunks + 1
    /\ dispatched' = dispatched \o NewTasks
    /\ UNCHANGED <<configVars, formatVars, managerVars, flagsobj, calls, groupVars, roomVars, storeVars,
                   sessionVars, events, written, inbound, handled>>

\* Manager.join_group calls Group.set_anon before it opens the connection
AppSetAnon ==
    /\ transport = "none"
    /\ Len(calls) < MaxAnonCalls
    /\ \E id_number \in AnonNumbers :
         /\ set_anon(id_number)
         /\ calls' = Append(calls, <<"set_anon", id_number>>)
    /\ UNCHANGED <<configVars, formatVars, managerVars, flagsobj, groupVars, roomVars, sessionVars, frameVars,
                   transport, last_command, readyQ, events, written, handled, chunks,
                   owner, uid>>

NextAnon ==
    \/ ConnectionMade
    \/ RunPing
    \/ AppSetAnon
    \/ AnonDataReceived
    \/ RunOk
    \/ RunInited
    \/ RunB
    \/ RunU

SpecAnon == InitAnonSession /\ [][NextAnon]_vars

\* This step runs the handler of a login acknowledgment with flag C
AnonOkStep ==
    /\ IsRecv(<<"ok">>)
    /\ Head(readyQ).arg[3] = <<"C">>
    /\ readyQ' = Tail(readyQ)

\* C23: when an anonymous id was set before a login acknowledgment of an
\* anonymous session is handled, the session has the same anonymous id after
\* it, whatever session id the acknowledgment carries, and the name color
\* stored is the seed that generates that id with that session id.
C23_PresetAnonIdKept ==
    [][(AnonOkStep /\ aid # None)
         => /\ aid' = aid
            /\ n_color' # None
            /\ generate_aid(n_color', Chars(Head(readyQ).arg[2])) = aid]_vars

\* set_anon(7) was called before the connection, and the acknowledgment with
\* session id 0000567800000000 has been handled
C23_Witness ==
    /\ calls = << <<"set_anon", 7>> >>
    /\ owner = <<"bob">>
    /\ uid = <<"0000567800000000">>
    /\ aid = <<"0", "0", "0", "7">>
    /\ n_color = <<"5", "4", "3", "9">>

\* The event was raised, the command was written
Raises(name) == \E i \in DOMAIN events : events[i].name = name
Wrote(cmd) == \E i \in DOMAIN written : written[i].cmd = cmd

\* The login acknowledgment of an anonymous session leaves a 4-digit id
AnonIdentityAssigned ==
    [][AnonOkStep => (Len(aid') = 4 /\ IntAble(aid') /\ Identity' = <<"!anon">>)]_vars

\* C28 as stated: the login acknowledgment of an anonymous session leaves a
\* 4-digit anonymous id, and no on_message event is raised before the
\* roster request (gparticipants) is written.
C28_RosterBeforeAnyMessage ==
    /\ AnonIdentityAssigned
    /\ [](Raises("on_message") => Wrote("gparticipants"))

\* C28, amended: the login acknowledgment of an anonymous session leaves a
\* 4-digit anonymous id, and the roster request (gparticipants) is written
\* when inited is handled: before on_connect is raised and so before every
\* on_message event that follows on_connect.  Messages the server sends
\* before inited are delivered at once, before the roster request.
C28_RosterBeforeMessagesAfterConnect ==
    /\ AnonIdentityAssigned
    /\ [](Raises("on_connect") => Wrote("gparticipants"))

\* An anonymous handshake followed by a message: ok, inited, b, u
C28_Witness ==
    /\ Len(aid) = 4
    /\ owner = <<"bob">>
    /\ Wrote("gparticipants")
    /\ [i \in DOMAIN events |-> events[i].name]
         = <<"on_connect", "on_history_done", "on_message">>

(***************************************************************************)
(* GroupFlags.update: SpecUpdate.  The room session receives ok commands    *)
(* and the application calls set_input and display_badge with every        *)
(* combination of their two switches.                                      *)
(***************************************************************************)
\* int | int and int & ~int
BitOr(a, b) == a + b - BitAnd(a, b)
BitClear(a, b) == a - BitAnd(a, b)

\* GroupFlags._IMPLIES
GroupImplies == (32768 :> 16384) @@ (65536 :> 131072) @@ (2097152 :> 16384)

\* radio_set = None
NoFlag == -1

\* The for loop of GroupFlags.update and the assignment after it
RECURSIVE update_loop(_, _, _, _, _)
update_loop(args, radio, set_flags, clear_flags, radio_set) ==
    IF args = <<>>
    THEN [set   |-> IF radio /\ radio_set # NoFlag THEN radio_set ELSE set_flags,
          clear |-> clear_flags]
    ELSE LET test == args[1][1]
             flag == IF args[1][2] \in DOMAIN GroupImplies
                     THEN BitOr(args[1][2], GroupImplies[args[1][2]])
                     ELSE args[1][2]
         IN  IF radio
             THEN IF test /\ radio_set = NoFlag
                  THEN update_loop(Tail(args), radio, set_flags, clear_flags, flag)
                  ELSE update_loop(Tail(args), radio, set_flags,
                                   BitOr(clear_flags, flag), radio_set)
             ELSE IF ~test
                  THEN update_loop(Tail(args), radio, BitClear(set_flags, flag),
                                   BitOr(clear_flags, flag), radio_set)
                  ELSE update_loop(Tail(args), radio, BitOr(set_flags, flag),
                                   BitClear(clear_flags, flag), radio_set)

\* The masks GroupFlags.update hands to send_command
update(args, radio) == update_loop(args, radio, 0, 0, NoFlag)

\* An argument of send_command: a str or an int
StrArg(s) == [type |-> "str", str |-> s]
IntArg(n) == [type |-> "int", int |-> n]

\* send_command with arguments of any type: ':'.join raises TypeError when
\* one of them is not a str, and nothing is written
send_args(tr, w, cmd, args) ==
    IF tr = "none" THEN w
    ELSE IF \E i \in DOMAIN args : args[i].type # "str" THEN w
    ELSE Append(w, [cmd |-> cmd, args |-> [i \in DOMAIN args |-> args[i].str],
                    crlf |-> TRUE, open |-> (tr = "open")])

\* The candidates set_input and display_badge hand to GroupFlags.update
Candidates(op, first, second) ==
    IF op = "set_input" THEN << <<first, 65536>>, <<second, 131072>> >>
    ELSE << <<first, 524288>>, <<second, 1048576>> >>

\* Group.set_input(closed_without_mods, broadcast) and
\* Group.display_badge(choose, force)
update_flags(op, first, second) ==
    IF has_permission(Required[op]) = "yes"
    THEN LET masks == update(Candidates(op, first, second), TRUE)
         IN  written' = send_args(transport, written, "updategroupflags",
                                  <<IntArg(masks.set), IntArg(masks.clear)>>)
    ELSE UNCHANGED written

\* The application calls set_input or display_badge
AppUpdateFlags ==
    /\ transport # "none"
    /\ Len(calls) < MaxModCalls
    /\ \E op \in {"set_input", "display_badge"}, first \in BOOLEAN, second \in BOOLEAN :
         /\ update_flags(op, first, second)
         /\ calls' = Append(calls, <<op, <<first, second>> >>)
    /\ UNCHANGED <<configVars, formatVars, managerVars, flagsobj, groupVars, roomVars, storeVars, sessionVars,
                   frameVars, transport, last_command, readyQ, events, handled, chunks>>

NextUpdate ==
    \/ ModDataReceived
    \/ RunOk
    \/ AppUpdateFlags

SpecUpdate == InitModSession /\ [][NextUpdate]_vars

\* The first candidate whose test is true, or 0
FirstTrue(cands) ==
    IF \E i \in DOMAIN cands : cands[i][1]
    THEN CHOOSE i \in DOMAIN cands :
             cands[i][1] /\ \A j \in DOMAIN cands : cands[j][1] => i <= j
    ELSE 0

\* The masks of a call satisfy the radio rule
RadioRule(cands, masks) ==
    /\ \A i \in DOMAIN cands :
         IF i = FirstTrue(cands)
         THEN BitAnd(masks.set, cands[i][2]) = cands[i][2]
         ELSE /\ BitAnd(masks.set, cands[i][2]) = 0
              /\ BitAnd(masks.clear, cands[i][2]) = cands[i][2]
    /\ FirstTrue(cands) = 0 => masks.set = 0

\* C21: when the owner calls set_input or display_badge, one updategroupflags
\* command is written with the masks GroupFlags.update computed; the set mask
\* holds the flag of the first candidate whose switch is on and the flag of
\* no other candidate, the clear mask holds the flag of every other
\* candidate, and the set mask is 0 when no switch is on.
C21_RadioSetsFirstTrue ==
    [][(calls' # calls /\ Identity = owner)
         => LET call  == calls'[Len(calls')]
                cands == Candidates(call[1], call[2][1], call[2][2])
            IN  /\ RadioRule(cands, update(cands, TRUE))
                /\ Len(written') = Len(written) + 1
                /\ written'[Len(written')].cmd = "updategroupflags"]_vars

(***************************************************************************)
(* GroupFlags.update, radio or not: SpecMasks.  The application calls      *)
(* disable_content, auto_moderation, set_input and display_badge with      *)
(* every combination of their switches.                                    *)
(***************************************************************************)
\* The methods that call GroupFlags.update, and those that pass radio=True
UpdateOps == {"disable_content", "auto_moderation", "set_input", "display_badge"}
IsRadio(op) == op \in {"set_input", "display_badge"}

\* The switches a method takes
Switches(op) == IF IsRadio(op) THEN [1..2 -> BOOLEAN] ELSE [1..3 -> BOOLEAN]

\* The candidates each method hands to GroupFlags.update
CandidatesOf(op, sw) ==
    IF op = "disable_content"
    THEN << <<sw[1], 32>>, <<sw[2], 64>>, <<sw[3], 128>> >>
    ELSE IF op = "auto_moderation"
    THEN << <<sw[1], 16384>>, <<sw[2], 32768>>, <<sw[3], 2097152>> >>
    ELSE Candidates(op, sw[1], sw[2])

\* The candidate's flag with the flag it implies
WithImplied(flag) ==
    IF flag \in DOMAIN GroupImplies THEN BitOr(flag, GroupImplies[flag]) ELSE flag

\* The application calls one of the four methods; the call is recorded with
\* the masks GroupFlags.update handed to send_command
AppGroupUpdate ==
    /\ transport # "none"
    /\ Len(calls) < MaxModCalls
    /\ \E op \in UpdateOps :
         /\ has_permission(Required[op]) = "yes"
         /\ \E sw \in Switches(op) :
              LET masks == update(CandidatesOf(op, sw), IsRadio(op))
              IN  /\ written' = send_args(transport, written, "updategroupflags",
                                          <<IntArg(masks.set), IntArg(masks.clear)>>)
                  /\ calls' = Append(calls, <<op, sw, masks>>)
    /\ UNCHANGED <<configVars, formatVars, managerVars, flagsobj, groupVars, roomVars, storeVars, sessionVars,
                   frameVars, transport, last_command, readyQ, events, handled, chunks>>

NextMasks ==
    \/ ModDataReceived
    \/ RunOk
    \/ AppGroupUpdate

SpecMasks == InitModSession /\ [][NextMasks]_vars

\* C36: in every updategroupflags command GroupFlags.update produces, the set
\* mask and the clear mask have no bit in common.
C36_MasksDisjoint ==
    \A i \in DOMAIN calls : BitAnd(calls[i][3].set, calls[i][3].clear) = 0

\* set_input(closed_without_mods=True): the set mask 196608 and the clear
\* mask 131072 share the broadcast bit
C36_Counterexample ==
    /\ calls # <<>>
    /\ calls[1][1] = "set_input" /\ calls[1][2][1]
    /\ calls[1][3] = [set |-> 196608, clear |-> 131072]

\* C37: in a non-radio update, every candidate with a true test has its flag
\* and the flags it implies in the set mask and not in the clear mask, every
\* candidate with a false test has its own flag in the clear mask unless a
\* true candidate implies it, and auto_moderation(basic=True) alone gives a
\* set mask that holds the bit 16384.
C37_NonRadioSetsTrueCandidates ==
    \A i \in DOMAIN calls :
        ~IsRadio(calls[i][1]) =>
            LET cands == CandidatesOf(calls[i][1], calls[i][2])
                masks == calls[i][3]
            IN  /\ \A k \in DOMAIN cands :
                     IF cands[k][1]
                     THEN /\ BitAnd(masks.set, WithImplied(cands[k][2]))
                               = WithImplied(cands[k][2])
                          /\ BitAnd(masks.clear, WithImplied(cands[k][2])) = 0
                     ELSE \/ BitAnd(masks.clear, cands[k][2]) = cands[k][2]
                          \/ \E j \in DOMAIN cands :
                                /\ cands[j][1]
                                /\ BitAnd(WithImplied(cands[j][2]), cands[k][2])
                                      = cands[k][2]
                /\ (calls[i][1] = "auto_moderation"
                      /\ calls[i][2] = <<TRUE, FALSE, FALSE>>)
                       => BitAnd(masks.set, 16384) = 16384

\* auto_moderation(basic=True): the candidates that are off clear the bit
\* 16384 they imply, and the set mask is 0
C37_Counterexample ==
    /\ calls # <<>>
    /\ calls[1][1] = "auto_moderation" /\ calls[1][2] = <<TRUE, FALSE, FALSE>>
    /\ calls[1][3] = [set |-> 0, clear |-> 2146304]

(***************************************************************************)
(* Flags objects: SpecFlags.  The application holds a Flags object of one  *)
(* of the three classes and calls set and clear on it.                     *)
(***************************************************************************)
MaxFlagCalls == 3    \* set and clear calls of one behaviour

\* Flags._IMPLIES, GroupFlags._IMPLIES, ModFlags._IMPLIES
ModImplies == (2 :> 82368) @@ (32768 :> 65552)
_IMPLIES(cls) ==
    IF cls = "GroupFlags" THEN GroupImplies
    ELSE IF cls = "ModFlags" THEN ModImplies
    ELSE <<>>

\* Flags(value) of a class
Flags(cls, value) == [cls |-> cls, value |-> value]

\* Flags.set
flags_set(f, flag) ==
    LET implied == IF flag \in DOMAIN _IMPLIES(f.cls)
                   THEN BitOr(f.value, _IMPLIES(f.cls)[flag])
                   ELSE f.value
    IN  [f EXCEPT !.value = BitOr(implied, flag)]

\* Flags.clear.  The loop unpacks each element of _IMPLIES.values() into
\* (old_flag, imply); the elements are ints, so the first iteration raises
\* TypeError and the object keeps its value.  An empty table is not iterated.
flags_clear(f, flag) ==
    IF DOMAIN _IMPLIES(f.cls) # {}
    THEN [raised |-> TRUE, obj |-> f]
    ELSE [raised |-> FALSE, obj |-> [f EXCEPT !.value = BitClear(f.value, flag)]]

\* The single bits the application passes, and the values an object is
\* created with: each closed under the table of its class
FlagBits(cls) ==
    IF cls = "GroupFlags" THEN {4, 16384, 32768, 65536, 131072}
    ELSE IF cls = "ModFlags" THEN {2, 16, 64, 32768, 65536}
    ELSE {1, 2, 4}
StartValues(cls) ==
    IF cls = "GroupFlags" THEN {0, 4, 16384, 49152, 196608}
    ELSE IF cls = "ModFlags" THEN {0, 16, 82370, 98320}
    ELSE {0, 3, 7}

FlagClasses == {"Flags", "GroupFlags", "ModFlags"}

InitFlags ==
    /\ impl = "pkg"
    /\ kind = "group"
    /\ username = FALSE
    /\ password = FALSE
    /\ login = <<>>
    /\ aid = None
    /\ n_color = None
    /\ uid = <<"1234">>
    /\ \E cls \in FlagClasses : \E value \in StartValues(cls) :
          flagsobj = Flags(cls, value)
    /\ NewSession
    /\ InitRoom

\* The application calls flags.set(flag)
AppFlagsSet ==
    /\ Len(calls) < MaxFlagCalls
    /\ \E flag \in FlagBits(flagsobj.cls) :
         /\ flagsobj' = flags_set(flagsobj, flag)
         /\ calls' = Append(calls, <<"set", flag>>)
    /\ UNCHANGED <<configVars, formatVars, managerVars, groupVars, roomVars, frameVars, storeVars,
                   sessionVars, transport, last_command, readyQ, events,
                   written, chunks, handled>>

\* The application calls flags.clear(flag)
AppFlagsClear ==
    /\ Len(calls) < MaxFlagCalls
    /\ \E flag \in FlagBits(flagsobj.cls) :
         /\ flagsobj' = flags_clear(flagsobj, flag).obj
         /\ calls' = Append(calls, <<"clear", flag>>)
    /\ UNCHANGED <<configVars, formatVars, managerVars, groupVars, roomVars, frameVars, storeVars,
                   sessionVars, transport, last_command, readyQ, events,
                   written, chunks, handled>>

NextFlags ==
    \/ AppFlagsSet
    \/ AppFlagsClear

SpecFlags == InitFlags /\ [][NextFlags]_vars

\* The bits of flag are all set in value
HasBits(value, flag) == BitAnd(value, flag) = flag

\* Every set bit that the table lists has the bits it implies set
Closed(f) ==
    \A x \in DOMAIN _IMPLIES(f.cls) :
       HasBits(f.value, x) => HasBits(f.value, _IMPLIES(f.cls)[x])

\* A set bit of the value implies (part of) flag
ImpliedBySetBit(f, flag) ==
    \E x \in DOMAIN _IMPLIES(f.cls) :
       HasBits(f.value, x) /\ BitAnd(_IMPLIES(f.cls)[x], flag) # 0

\* C29: set(X) sets X and the bits the table lists for X and nothing else;
\* clear(Y) leaves the value alone when a set bit implies Y and otherwise
\* clears exactly Y; and the value stays closed under the table.
C29_SetImpliesClearRespects ==
    /\ [](Closed(flagsobj))
    /\ [][calls' # calls
           => LET call == calls'[Len(calls')]
                  tbl  == _IMPLIES(flagsobj.cls)
              IN  /\ flagsobj'.cls = flagsobj.cls
                  /\ call[1] = "set" =>
                        flagsobj'.value =
                           BitOr(BitOr(flagsobj.value, call[2]),
                                 IF call[2] \in DOMAIN tbl THEN tbl[call[2]] ELSE 0)
                  /\ call[1] = "clear" =>
                        flagsobj'.value =
                           IF ImpliedBySetBit(flagsobj, call[2])
                           THEN flagsobj.value
                           ELSE BitClear(flagsobj.value, call[2])]_vars

(***************************************************************************)
(* post.py decoders: SpecPost.  Post._base decodes the channel and badge   *)
(* field of a message and parse_formatting decodes its leading tags; each  *)
(* call is logged with its input and its result.                           *)
(***************************************************************************)
MaxField     == 8191    \* largest channel and badge field decoded

\* int >> n
ShiftRight(v, n) == v \div (2 ^ n)

\* A badge read one bit too low
badge_low(v) == BitAnd(ShiftRight(v, 4), 3)

\* Post._base: badge = (channels_and_badge >> 5) & 3
badge(v) == BitAnd(ShiftRight(v, 5), 3)

\* Post._base: channel = (channels_and_badge >> 8) & 31, then
\* channel&1|((channel&8)>>2)|((channel&16)>>3)
channel(v) ==
    LET raw == BitAnd(ShiftRight(v, 8), 31)
    IN  BitOr(BitOr(BitAnd(raw, 1), ShiftRight(BitAnd(raw, 8), 2)),
              ShiftRight(BitAnd(raw, 16), 3))

InitPost ==
    /\ impl = "pkg"
    /\ kind = "group"
    /\ username = FALSE
    /\ password = FALSE
    /\ login = <<>>
    /\ uid = <<"1234">>
    /\ n_color = None
    /\ aid = None
    /\ flagsobj = None
    /\ NewSession
    /\ InitRoom

\* What a decoder call leaves alone
PostFrameUnchanged ==
    UNCHANGED <<configVars, formatVars, managerVars, flagsobj, groupVars, roomVars, frameVars, storeVars,
                sessionVars, transport, last_command, readyQ, events, written,
                chunks, handled>>

\* Post._base decodes raw[7]
DecodeChannelBadge ==
    /\ calls = <<>>
    /\ \E v \in 0..MaxField :
         calls' = Append(calls, <<"channel_badge", v,
                                  [channel |-> channel(v), badge |-> badge(v)]>>)
    /\ PostFrameUnchanged

\* base.FONT_FACES
FONT_FACES ==
    <<"Arial", "Comic Sans", "Georgia", "Handwriting", "Impact", "Palatino",
      "Papyrus", "Times New Roman", "Typewriter">>

\* The character classes of POST_TAG_RE over the characters of the model;
\* Q is the double quote
HexChars   == Range(Digits) \cup {"A", "F", "f"}
AlnumChars == HexChars \cup {"n", "x", "h"}

\* int(s) of a str of decimal digits
RECURSIVE int_str(_)
int_str(s) ==
    IF s = <<>> THEN 0
    ELSE 10 * int_str(SubSeq(s, 1, Len(s) - 1)) + int_digit(s[Len(s)])

\* How many characters of s from position i on belong to the class
RECURSIVE RunLen(_, _, _)
RunLen(s, i, class) ==
    IF i <= Len(s) /\ s[i] \in class THEN 1 + RunLen(s, i + 1, class) ELSE 0

\* s has the characters lit at position i
At(s, i, lit) == i + Len(lit) - 1 <= Len(s) /\ SubSeq(s, i, i + Len(lit) - 1) = lit

\* (<n([a-fA-F0-9]{1,6})\/>)? tried at the start of raw: group 2 or None, and
\* the position after the group
MatchN(raw) ==
    LET k == RunLen(raw, 3, HexChars)
    IN  IF At(raw, 1, <<"<", "n">>) /\ k \in 1..6 /\ At(raw, 3 + k, <<"/", ">">>)
        THEN [tok |-> SubSeq(raw, 3, 2 + k), next |-> 5 + k]
        ELSE [tok |-> None, next |-> 1]

\* (<f x([0-9a-fA-F]{2,8})="([0-9a-zA-Z]*)">)? tried at position i: groups 4
\* and 5, or None for both
MatchF(raw, i) ==
    LET k == RunLen(raw, i + 4, HexChars)
        j == RunLen(raw, i + 6 + k, AlnumChars)
    IN  IF /\ At(raw, i, <<"<", "f", " ", "x">>)
           /\ k \in 2..8
           /\ At(raw, i + 4 + k, <<"=", "Q">>)
           /\ At(raw, i + 6 + k + j, <<"Q", ">">>)
        THEN [tok  |-> SubSeq(raw, i + 4, i + 3 + k),
              face |-> SubSeq(raw, i + 6 + k, i + 5 + k + j)]
        ELSE [tok |-> None, face |-> None]

\* A test of the token length that takes every even length for size and color
has_size_even(size_color) == Len(size_color) % 2 = 0

\* len(size_color) % 3 == 2
has_size(size_color) == Len(size_color) % 3 = 2

\* parse_formatting.  POST_TAG_RE.search matches at the start of raw, where
\* the pattern matches at least the empty string.  int() of two characters
\* that are not both decimal digits raises ValueError out of the function.
parse_formatting(raw) ==
    LET n == MatchN(raw)
        f == MatchF(raw, n.next)
        name  == IF n.tok = None THEN <<>> ELSE n.tok
        sized == f.tok # None /\ has_size(f.tok)
        face ==
            IF f.face = None THEN FONT_FACES[1]
            ELSE IF ~IntAble(f.face) THEN f.face
            ELSE IF int_str(f.face) < Len(FONT_FACES)
                 THEN FONT_FACES[int_str(f.face) + 1]
                 ELSE FONT_FACES[1]
    IN  IF sized /\ ~IntAble(SubSeq(f.tok, 1, 2))
        THEN [raised |-> TRUE, n_color |-> <<>>, f_color |-> <<>>, f_size |-> 11,
              f_face |-> FONT_FACES[1]]
        ELSE [raised  |-> FALSE,
              n_color |-> name,
              f_color |-> IF f.tok = None THEN <<>>
                          ELSE IF sized THEN SubSeq(f.tok, 3, Len(f.tok))
                          ELSE f.tok,
              f_size  |-> IF sized THEN int_str(SubSeq(f.tok, 1, 2)) ELSE 11,
              f_face  |-> face]

\* The tokens of the messages the server sends: name colors, size and color
\* tokens of every length from 2 to 9, font faces; None for a missing tag
NameTokens ==
    {None, <<"F">>, <<"1", "A", "2", "F", "3">>, <<"0", "f", "1", "A", "2", "F">>,
     <<"1", "2", "3", "4", "5", "6", "7">>}
HexDigits == <<"1", "1", "F", "F", "0", "0", "0", "0", "A">>
FontTokens ==
    {None} \cup {SubSeq(HexDigits, 1, k) : k \in 2..9}
           \cup {SubSeq(HexDigits, 3, 2 + k) : k \in {3, 5, 6}}
FaceTokens == {<<>>, <<"2">>, <<"9">>, <<"1", "0">>, <<"h">>}
Leads == {<<>>, <<"h">>}

\* The raw message: text before the tags, the tags, the body
Render(lead, ntok, ftok, face) ==
    lead
      \o (IF ntok = None THEN <<>> ELSE <<"<", "n">> \o ntok \o <<"/", ">">>)
      \o (IF ftok = None THEN <<>>
          ELSE <<"<", "f", " ", "x">> \o ftok \o <<"=", "Q">> \o face \o <<"Q", ">">>)
      \o <<"h", "e", "l", "l", "o">>

\* Post._base calls parse_formatting(raw[9])
ParseFormatting ==
    /\ calls = <<>>
    /\ \E lead \in Leads, ntok \in NameTokens, ftok \in FontTokens,
          face \in FaceTokens :
         calls' = Append(calls,
                    <<"parse_formatting",
                      [lead |-> lead, n |-> ntok, f |-> ftok, face |-> face],
                      parse_formatting(Render(lead, ntok, ftok, face))>>)
    /\ PostFrameUnchanged

NextPost ==
    \/ DecodeChannelBadge
    \/ ParseFormatting

SpecPost == InitPost /\ [][NextPost]_vars

\* The channel and badge decodings made so far
Decodings == {i \in DOMAIN calls : calls[i][1] = "channel_badge"}

Parsings ==
    {i \in DOMAIN calls :
        /\ calls[i][1] = "parse_formatting"
        /\ calls[i][2].lead = <<>>
        /\ calls[i][2].n # None => Len(calls[i][2].n) \in 1..6}

\* C33: a font token of 2 size digits and a 3- or 6-digit color gives that
\* size and that color; a color-only token of 3 or 6 digits gives that color
\* and size 11; without tags the colors are empty, the size is 11 and the
\* face is the first face; the name color is the token of the name tag and
\* a numeric face token indexes the faces.
C33_FontTokenSplitByLength ==
    \A i \in Parsings :
       LET inp == calls[i][2]
           out == calls[i][3]
       IN  /\ (inp.f # None /\ Len(inp.f) \in {5, 8} /\ IntAble(SubSeq(inp.f, 1, 2)))
                => /\ ~out.raised
                   /\ out.f_size = 10 * int_digit(inp.f[1]) + int_digit(inp.f[2])
                   /\ out.f_color = SubSeq(inp.f, 3, Len(inp.f))
           /\ (inp.f # None /\ Len(inp.f) \in {3, 6})
                => /\ ~out.raised
                   /\ out.f_size = 11
                   /\ out.f_color = inp.f
           /\ (inp.f = None)
                => /\ ~out.raised
                   /\ out.f_color = <<>>
                   /\ out.f_size = 11
                   /\ out.f_face = "Arial"
           /\ (inp.f = None /\ inp.n = None) => out.n_color = <<>>
           /\ (~out.raised /\ inp.n # None) => out.n_color = inp.n
           /\ (~out.raised /\ inp.f # None /\ Len(inp.f) \in 2..8 /\ inp.face = <<"2">>)
                => out.f_face = "Georgia"

\* <n1A2F3/><f x11FF0000="2">hello was parsed: name color 1A2F3, size 11,
\* font color FF0000, the face of index 2
C33_Witness ==
    \E i \in Parsings :
       /\ calls[i][2] = [lead |-> <<>>, n |-> <<"1", "A", "2", "F", "3">>,
                         f |-> <<"1", "1", "F", "F", "0", "0", "0", "0">>,
                         face |-> <<"2">>]
       /\ calls[i][3] = [raised |-> FALSE, n_color |-> <<"1", "A", "2", "F", "3">>,
                         f_color |-> <<"F", "F", "0", "0", "0", "0">>, f_size |-> 11,
                         f_face |-> "Georgia"]

(***************************************************************************)
(* Formatting setters: SpecFormat.  The application assigns to n_color,    *)
(* f_color and f_size of a Connection that is anonymous (_aid is set) or   *)
(* not; each call is logged with its argument and whether it raised.       *)
(***************************************************************************)
MaxFormatCalls == 3    \* setter calls of one behaviour

\* int(arg, 16) does not raise ValueError, for strs of the model's characters
IsHex(arg) == arg # <<>> /\ \A i \in DOMAIN arg : arg[i] \in HexChars

\* The colors and sizes the application assigns
ColorArgs == {<<>>, <<"F", "F", "0">>, <<"1", "A", "2", "F", "3", "0">>, <<"G", "0", "0">>}
SizeArgs  == {0, 9, 14, 22, 23}

\* An n_color setter that does not look at _aid
set_n_color_always(arg) ==
    IF IsHex(arg) THEN [raised |-> FALSE, value |-> arg]
    ELSE [raised |-> TRUE, value |-> n_color]

\* Connection.n_color setter: the call raised, and _n_color after it
set_n_color(arg) ==
    IF aid # None THEN [raised |-> FALSE, value |-> n_color]
    ELSE IF IsHex(arg) THEN [raised |-> FALSE, value |-> arg]
    ELSE [raised |-> TRUE, value |-> n_color]

\* Connection.f_color setter
set_f_color(arg) ==
    IF arg # <<>> /\ ~IsHex(arg) THEN [raised |-> TRUE, value |-> f_color]
    ELSE [raised |-> FALSE, value |-> arg]

\* Connection.f_size setter
set_f_size(arg) == IF arg < 9 THEN 9 ELSE IF arg > 22 THEN 22 ELSE arg

InitFormat ==
    /\ impl = "pkg"
    /\ kind = "group"
    /\ username = FALSE
    /\ password = FALSE
    /\ login = <<>>
    /\ uid = <<"0000567800000000">>
    /\ \/ aid = None /\ n_color = None
       \/ aid = <<"0", "0", "0", "7">> /\ n_color = <<"5", "4", "3", "9">>
    /\ flagsobj = None
    /\ NewSession
    /\ InitRoom

\* What a setter call leaves alone
FormatFrame ==
    UNCHANGED <<configVars, managerVars, flagsobj, groupVars, roomVars, frameVars, sessionVars,
                transport, last_command, readyQ, events, written, chunks, handled,
                aid, owner, uid>>

\* group.n_color = arg
AppSetNColor ==
    /\ Len(calls) < MaxFormatCalls
    /\ \E arg \in ColorArgs :
         /\ n_color' = set_n_color(arg).value
         /\ calls' = Append(calls, <<"n_color", arg, set_n_color(arg).raised>>)
    /\ UNCHANGED formatVars
    /\ FormatFrame

\* group.f_color = arg
AppSetFColor ==
    /\ Len(calls) < MaxFormatCalls
    /\ \E arg \in ColorArgs :
         /\ f_color' = set_f_color(arg).value
         /\ calls' = Append(calls, <<"f_color", arg, set_f_color(arg).raised>>)
    /\ UNCHANGED <<f_size, n_color>>
    /\ FormatFrame

\* group.f_size = arg
AppSetFSize ==
    /\ Len(calls) < MaxFormatCalls
    /\ \E arg \in SizeArgs :
         /\ f_size' = set_f_size(arg)
         /\ calls' = Append(calls, <<"f_size", arg, FALSE>>)
    /\ UNCHANGED <<f_color, n_color>>
    /\ FormatFrame

NextFormat ==
    \/ AppSetNColor
    \/ AppSetFColor
    \/ AppSetFSize

SpecFormat == InitFormat /\ [][NextFormat]_vars

\* The values the setters keep in bounds, and the name color frozen while
\* the session is anonymous
FormatInBounds ==
    /\ f_size \in 9..22
    /\ f_color = <<>> \/ IsHex(f_color)
    /\ n_color = None \/ IsHex(n_color)
FrozenWhileAnonymous == (calls' # calls /\ aid # None) => n_color' = n_color

\* This step is a color setter call with an argument that is not hex
InvalidColorStep ==
    /\ calls' # calls
    /\ calls'[Len(calls')][1] \in {"n_color", "f_color"}
    /\ calls'[Len(calls')][2] # <<>>
    /\ ~IsHex(calls'[Len(calls')][2])

MaxClientCmds == 3    \* roster commands received in one session

\* Clients 50 and 60 join, leave, log in under another name and log out, and
\* the server sends a snapshot and a moderator list
ClientFrames ==
    {ParticipantFrame("1", "50", "al", "100"), ParticipantFrame("1", "60", "bob", "100"),
     ParticipantFrame("0", "50", "al", "100"), ParticipantFrame("2", "50", "bob", "100"),
     ParticipantFrame("2", "50", "None", "100"),
     GParticipantsFrame("1", <<Person("50", "100", "bob")>>),
     ModsFrame(<< <<"bob", ",", "8">> >>)}

\* data_received with a chunk of these commands
ClientDataReceived ==
    /\ IoReady
    /\ \E k \in ChunkSizes :
         /\ Len(dispatched) + k <= MaxClientCmds
         /\ \E data \in FrameSeqs(ClientFrames, k) : data_received(data)
    /\ chunks' = chunks + 1
    /\ dispatched' = dispatched \o NewTasks
    /\ UNCHANGED <<configVars, formatVars, managerVars, flagsobj, calls, groupVars, roomVars, storeVars, sessionVars,
                   events, written, inbound, handled>>

NextClients ==
    \/ ClientDataReceived
    \/ RunGparticipants
    \/ RunParticipant
    \/ RunMods

SpecClients == InitRoomSession /\ [][NextClients]_vars

\* The Users of the room that hold the client session c
Holders(c) == {r \in UsersIn(users \cup mods) : c \in DOMAIN members[r].clients}

\* C35: a client-session id is held by at most one User of the room at a time.
C35_OneHolderPerClient ==
    \A r, t \in UsersIn(users \cup mods) :
        r # t => DOMAIN members[r].clients \cap DOMAIN members[t].clients = {}

\* Client 50 joined as al and then logged in as bob, who was already in the
\* room: both Users hold client 50
C35_Counterexample ==
    /\ Len(handled) = 3
    /\ handled[3][1] = <<"participant">>
    /\ handled[3][2][1] = <<"2">> /\ handled[3][2][2] = <<"50">>
    /\ handled[3][2][4] = <<"bob">>
    /\ Cardinality(Holders(50)) = 2

(***************************************************************************)
(* Group.send_post: SpecSend.  The application sends posts of up to twice  *)
(* the maximal length and more.  A str is kept as a sequence of runs       *)
(* <<character, count>>, with no empty run and no two neighbouring runs of *)
(* one character, so that two strs are equal exactly when their runs are.  *)
(***************************************************************************)
MaxSendCalls == 2    \* send_post calls of one behaviour

\* Group._MAX_LENGTH, BIGMESSAGE_CUT, BIGMESSAGE_MULTIPLE, Group._TOO_BIG_MESSAGE
_MAX_LENGTH == 2000
BIGMESSAGE_CUT == 0
BIGMESSAGE_MULTIPLE == 1
_TOO_BIG_MESSAGE == BIGMESSAGE_MULTIPLE

\* a + b
RCat(a, b) ==
    IF a = <<>> THEN b
    ELSE IF b = <<>> THEN a
    ELSE IF a[Len(a)][1] = b[1][1]
    THEN SubSeq(a, 1, Len(a) - 1) \o << <<b[1][1], a[Len(a)][2] + b[1][2]>> >> \o Tail(b)
    ELSE a \o b

\* len(s)
RECURSIVE RLen(_)
RLen(s) == IF s = <<>> THEN 0 ELSE s[1][2] + RLen(Tail(s))

\* s[:n] and s[n:]
RECURSIVE RTake(_, _)
RTake(s, n) ==
    IF n = 0 \/ s = <<>> THEN <<>>
    ELSE IF s[1][2] <= n THEN <<s[1]>> \o RTake(Tail(s), n - s[1][2])
    ELSE << <<s[1][1], n>> >>
RECURSIVE RDrop(_, _)
RDrop(s, n) ==
    IF n = 0 \/ s = <<>> THEN s
    ELSE IF s[1][2] <= n THEN RDrop(Tail(s), n - s[1][2])
    ELSE << <<s[1][1], s[1][2] - n>> >> \o Tail(s)

\* The str of a sequence of characters, and s * k
RECURSIVE Runs(_)
Runs(cs) == IF cs = <<>> THEN <<>> ELSE RCat(<< <<cs[1], 1>> >>, Runs(Tail(cs)))
RECURSIVE Times(_, _)
Times(s, k) == IF k = 0 THEN <<>> ELSE RCat(s, Times(s, k - 1))

\* s.replace(c, rep) for one character c
RECURSIVE replace(_, _, _)
replace(s, c, rep) ==
    IF s = <<>> THEN <<>>
    ELSE RCat(IF s[1][1] = c THEN Times(rep, s[1][2]) ELSE <<s[1]>>,
              replace(Tail(s), c, rep))

\* html.escape(s): & first, then < and >, then the two quotes
html_escape(s) ==
    LET amp  == replace(s, "&", Runs(<<"&", "a", "m", "p", ";">>))
        lt   == replace(amp, "<", Runs(<<"&", "l", "t", ";">>))
        gt   == replace(lt, ">", Runs(<<"&", "g", "t", ";">>))
        quot == replace(gt, "\"", Runs(<<"&", "q", "u", "o", "t", ";">>))
    IN  replace(quot, "'", Runs(<<"&", "#", "x", "2", "7", ";">>))

\* ((channel & 2) << 2 | (channel & 1)) << 8
encode_channel(chan) ==
    BitOr(BitAnd(chan, 2) * 4, BitAnd(chan, 1)) * 256

\* "<n{0._n_color}/><f x{0._f_size:02d}{0._f_color}=\"{0._f_face}\">": the
\* font face is 0 as __init__ left it
post_tag ==
    <<"<n">> \o (IF n_color = None THEN <<"None">> ELSE n_color) \o <<"/><f x">>
        \o (IF f_size < 10 THEN <<"0">> ELSE <<>>) \o str(f_size) \o f_color
        \o <<"=\"0\">">>

\* Group.send_post(post, chan, replace_html): the transport output after
\* it.  The sections of a long post are sent by send_post itself, with the
\* channel value computed above as their channel argument.
RECURSIVE send_post(_, _, _, _)
RECURSIVE send_sections(_, _, _)
send_post(w, post, chan, replace_html) ==
    IF post = <<>> THEN w
    ELSE LET ch == encode_channel(chan)
             p  == IF replace_html
                   THEN replace(html_escape(post), "LF", Runs(<<"<", "b", "r", "/", ">">>))
                   ELSE post
         IN  IF RLen(p) > _MAX_LENGTH
             THEN IF _TOO_BIG_MESSAGE = BIGMESSAGE_CUT
                  THEN send_post(w, RTake(p, _MAX_LENGTH), ch, FALSE)
                  ELSE IF _TOO_BIG_MESSAGE = BIGMESSAGE_MULTIPLE
                  THEN send_sections(w, p, ch)
                  ELSE w
             ELSE send_args(transport, w, "bm",
                            <<StrArg(<<"meme">>), StrArg(str(ch)),
                              StrArg([tag |-> post_tag, post |-> p])>>)

\* while post: sect = post[:2000]; post = post[2000:]; send_post(sect, ...)
send_sections(w, post, ch) ==
    IF post = <<>> THEN w
    ELSE send_sections(send_post(w, RTake(post, _MAX_LENGTH), ch, FALSE),
                       RDrop(post, _MAX_LENGTH), ch)

\* Posts: empty, short, of the maximal length and one more, of twice the
\* maximal length and one more, and posts that escaping makes longer
Posts ==
    {<<>>, << <<"a", 1>> >>, << <<"a", 2000>> >>, << <<"a", 2001>> >>,
     << <<"a", 4001>> >>,
     << <<"&", 1>>, <<"a", 1995>> >>, << <<"a", 1998>>, <<"<", 1>> >>,
     << <<"a", 1999>>, <<"LF", 1>>, <<"b", 1999>> >>}

InitSend == InitRoomSession

\* The application calls group.send_post(post, chan, replace_html)
AppSendPost ==
    /\ transport # "none"
    /\ Len(calls) < MaxSendCalls
    /\ \E post \in Posts, ch \in 0..3, replace_html \in BOOLEAN :
         /\ written' = send_post(written, post, ch, replace_html)
         /\ calls' = Append(calls, <<"send_post", <<post, ch, replace_html>> >>)
    /\ UNCHANGED <<configVars, formatVars, managerVars, flagsobj, groupVars, roomVars, storeVars, sessionVars,
                   frameVars, transport, last_command, readyQ, events, handled, chunks>>

NextSend == AppSendPost

SpecSend == InitSend /\ [][NextSend]_vars

\* The commands a step wrote
StepWritten == SubSeq(written', Len(written) + 1, Len(written'))

\* The bodies of a sequence of bm commands, one after the other
RECURSIVE Bodies(_)
Bodies(ws) == IF ws = <<>> THEN <<>> ELSE RCat(ws[1].args[3].post, Bodies(Tail(ws)))

\* The body send_post splits: the post, escaped when replace_html is set
Escaped(post, replace_html) ==
    IF replace_html
    THEN replace(html_escape(post), "LF", Runs(<<"<", "b", "r", "/", ">">>))
    ELSE post

\* The channel value of the command a short post with this channel writes
ShortChannel(ch) == send_post(<<>>, << <<"a", 1>> >>, ch, FALSE)[1].args[2]

\* C38: send_post of a body longer than 2000 characters writes bm commands
\* whose bodies are at most 2000 characters each and concatenate to the whole
\* escaped body, all with the channel value a short post with the same
\* channel argument carries; an empty post writes nothing.
C38_LongPostSplitKeepsChannel ==
    [][calls' # calls =>
         LET call == calls'[Len(calls')][2]
             body == Escaped(call[1], call[3])
         IN  /\ call[1] = <<>> => StepWritten = <<>>
             /\ RLen(body) > _MAX_LENGTH =>
                  /\ StepWritten # <<>>
                  /\ \A i \in DOMAIN StepWritten :
                       /\ StepWritten[i].cmd = "bm"
                       /\ RLen(StepWritten[i].args[3].post) <= _MAX_LENGTH
                       /\ StepWritten[i].args[2] = ShortChannel(call[2])
                  /\ Bodies(StepWritten) = body]_vars

\* A post of 4001 characters sent to channel 3 was written in three sections,
\* all with the channel value 0
C38_Counterexample ==
    /\ Len(calls) = 1
    /\ calls[1][2][1] = << <<"a", 4001>> >> /\ calls[1][2][2] = 3
    /\ Len(written) = 4
    /\ \A i \in 2..4 : written[i].args[2] = <<"0">>
    /\ ShortChannel(3) = <<"2", "3", "0", "4">>

(***************************************************************************)
(* manager.py: SpecManager.  The application joins and leaves rooms        *)
(* through a Manager that was made with a name that is not an anonymous    *)
(* name (manager._aid is None).                                            *)
(***************************************************************************)
MaxManagerCalls == 3    \* join_group, leave_group and leave_all calls

\* The room names the application passes
RoomArgs == {<<"al">>, <<"Al">>, <<"bob">>, <<"?">>}

\* str.isalnum of generate.server_num, which raises ValueError without it
isalnum(name) == \A i \in DOMAIN name : name[i] # "?"

\* group == group_name inside `group_name not in self._groups`: the list
\* holds Group objects, Connection and Group define no __eq__, and a Group
\* is never the str it is compared with
group_eq(g, group_name) == FALSE

\* list.pop(index)
Pop(l, index) == SubSeq(l, 1, index - 1) \o SubSeq(l, index + 1, Len(l))

\* ChatangoProtocol.disconnect of the room session p
session_disconnect(ps, p) ==
    [ps EXCEPT ![p].transport = "closed", ![p].explicit = TRUE]

\* Manager.join_pm: the private-message session is made once; self.pm is
\* not an attribute of Manager, so the return statement raises
join_pm(net) ==
    IF privates = 0
    THEN IF net = "ok"
         THEN [privates |-> 1, outcome |-> "AttributeError"]
         ELSE [privates |-> 0, outcome |-> "ConnectionError"]
    ELSE [privates |-> privates, outcome |-> "AttributeError"]

\* Manager.join_group(group_name); net is what create_connection does
join_group(arg, net) ==
    LET group_name == lower(arg) IN
    IF ~isalnum(group_name)
    THEN /\ calls' = Append(calls, <<"join_group", arg, "ValueError: invalid character">>)
         /\ UNCHANGED <<protocols, _groups, privates>>
    ELSE IF group_name # login
            /\ ~\E i \in DOMAIN _groups : group_eq(_groups[i], group_name)
    THEN IF net = "ok"
         THEN /\ protocols' = Append(protocols, [name |-> group_name, transport |-> "open",
                                                 explicit |-> FALSE])
              /\ _groups' = Append(_groups, Len(protocols) + 1)
              /\ calls' = Append(calls, <<"join_group", arg, "joined">>)
              /\ UNCHANGED privates
         ELSE /\ calls' = Append(calls, <<"join_group", arg, "ConnectionError">>)
              /\ UNCHANGED <<protocols, _groups, privates>>
    ELSE IF login # <<>> /\ group_name = login
    THEN /\ privates' = join_pm(net).privates
         /\ calls' = Append(calls, <<"join_group", arg, join_pm(net).outcome>>)
         /\ UNCHANGED <<protocols, _groups>>
    ELSE /\ calls' = Append(calls, <<"join_group", arg, "ValueError: multiple times">>)
         /\ UNCHANGED <<protocols, _groups, privates>>

\* for index, gro in enumerate(self._groups), with the pops inside the loop
RECURSIVE leave_loop(_, _, _, _)
leave_loop(ps, gs, index, group_name) ==
    IF index > Len(gs) THEN [protocols |-> ps, groups |-> gs]
    ELSE IF ps[gs[index]].name = group_name
    THEN leave_loop(session_disconnect(ps, gs[index]), Pop(gs, index), index + 1,
                    group_name)
    ELSE leave_loop(ps, gs, index + 1, group_name)

\* Manager.leave_group(group_name), with a name or with a Group, whose name
\* is taken
leave_group(group_name) ==
    LET r == leave_loop(protocols, _groups, 1, group_name)
    IN  /\ protocols' = r.protocols
        /\ _groups' = r.groups
        /\ calls' = Append(calls, <<"leave_group", group_name, "">>)
        /\ UNCHANGED privates

\* Manager.leave_all, with leave_pm
leave_all ==
    /\ protocols' = [p \in DOMAIN protocols |->
                       IF \E i \in DOMAIN _groups : _groups[i] = p
                       THEN [protocols[p] EXCEPT !.transport = "closed", !.explicit = TRUE]
                       ELSE protocols[p]]
    /\ _groups' = <<>>
    /\ privates' = 0
    /\ calls' = Append(calls, <<"leave_all", <<>>, "">>)

\* The Manager of a temporary name or of no name
InitManager ==
    /\ impl = "pkg"
    /\ kind = "group"
    /\ username \in BOOLEAN
    /\ password = FALSE
    /\ login = IF username THEN <<"al">> ELSE <<>>
    /\ uid = <<"1234">>
    /\ aid = None
    /\ n_color = None
    /\ flagsobj = None
    /\ NewSession
    /\ InitRoom

\* What the manager's methods leave alone: the session of the model
ManagerFrame ==
    UNCHANGED <<configVars, formatVars, flagsobj, groupVars, roomVars, frameVars,
                storeVars, sessionVars, transport, last_command, readyQ, events,
                written, chunks, handled>>

AppJoinGroup ==
    /\ Len(calls) < MaxManagerCalls
    /\ \E arg \in RoomArgs, net \in {"ok", "gaierror"} : join_group(arg, net)
    /\ ManagerFrame

AppLeaveGroup ==
    /\ Len(calls) < MaxManagerCalls
    /\ \E arg \in RoomArgs : leave_group(arg)
    /\ ManagerFrame

AppLeaveAll ==
    /\ Len(calls) < MaxManagerCalls
    /\ leave_all
    /\ ManagerFrame

NextManager ==
    \/ AppJoinGroup
    \/ AppLeaveGroup
    \/ AppLeaveAll

SpecManager == InitManager /\ [][NextManager]_vars

\* The entries of the registry for a room name
Sessions(name) == {i \in DOMAIN _groups : protocols[_groups[i]].name = name}

\* The call a step makes
ManagerCall == calls'[Len(calls')]

\* The registry holds at most one session per room name
OnePerRoom ==
    \A i, j \in DOMAIN _groups :
        protocols[_groups[i]].name = protocols[_groups[j]].name => i = j

\* join_group for a room that is joined raises ValueError and changes nothing
RejoinRefused ==
    (calls' # calls /\ ManagerCall[1] = "join_group"
       /\ Sessions(lower(ManagerCall[2])) # {})
      => /\ ManagerCall[3] = "ValueError: multiple times"
         /\ UNCHANGED <<protocols, _groups>>

\* After leave_group(name) and after leave_all the registry holds no session
\* of the room, and the sessions it held were disconnected
LeaveClears ==
    /\ (calls' # calls /\ ManagerCall[1] = "leave_group")
         => /\ \A i \in DOMAIN _groups' :
                 protocols'[_groups'[i]].name # ManagerCall[2]
            /\ \A i \in Sessions(ManagerCall[2]) : protocols'[_groups[i]].explicit
    /\ (calls' # calls /\ ManagerCall[1] = "leave_all")
         => /\ _groups' = <<>>
            /\ \A i \in DOMAIN _groups : protocols'[_groups[i]].explicit

\* C40: the registry holds at most one room session per room name: join_group
\* for a room that is already joined raises ValueError without a second
\* connection or registry entry, and after leave_group(name) or leave_all the
\* registry holds no session for that room and that session is disconnected.
C40_OneSessionPerRoom ==
    /\ []OnePerRoom
    /\ [][RejoinRefused /\ LeaveClears]_vars

\* The room bob was joined twice and left once: the registry still holds a
\* session of bob, which is open
C40_Counterexample ==
    /\ Len(calls) = 3
    /\ calls[1] = <<"join_group", <<"bob">>, "joined">>
    /\ calls[2] = <<"join_group", <<"bob">>, "joined">>
    /\ calls[3][1] = "leave_group" /\ calls[3][2] = <<"bob">>
    /\ _groups = <<2>>
    /\ protocols[2] = [name |-> <<"bob">>, transport |-> "open", explicit |-> FALSE]
====
